---- MODULE Spec2Model ----
(***************************************************************************)
(* A model of the dreamdocs conversion pipeline:                           *)
(*   - server/services/notion.ts: the rich-text composer, the paginated    *)
(*     depth-first block fetch (fetchNotionPage / fetchAllBlocks) and the  *)
(*     block-tree linearizer (blocksToMarkdown / blockToMarkdown);         *)
(*   - server/services/markdown.ts: parseMarkdown with its TOC and title   *)
(*     extraction, the heading anchors of the rendered headings, the       *)
(*     highlighting of fenced code blocks and generateTocHtml;             *)
(*   - the identifier extraction extractPageId and the route               *)
(*     POST /api/notion/fetch of handleNotion;                             *)
(*   - server/services/pdf.ts: the shared browser of getBrowser.           *)
(*                                                                         *)
(* Strings are sequences of one-character strings, so that nesting of      *)
(* markers, separators and slug characters are compared character by       *)
(* character.                                                              *)
(***************************************************************************)
EXTENDS Integers, Sequences, FiniteSets, TLC

VARIABLES
    \* rich-text composer: the run handed to richTextToMarkdown, its result
    rt_run, rt_out, rt_pc,
    \* block converter: the block and depth handed to blockToMarkdown, its
    \* result
    bk_block, bk_depth, bk_out, bk_pc,
    \* slugify: the string handed to it, the slug, the slug of the slug
    sl_s, sl_slug, sl_again, sl_pc,
    \* the remote page source: the shape of the block tree (n_parent[i] is
    \* the parent of block i, 0 the page), the kinds of its blocks, and the
    \* childless block flagged has_children all the same (0: none)
    n_parent, n_palette, n_hollow,
    \* the environment and the argument of fetchNotionPage
    n_key, n_url,
    \* one fetchNotionPage call: where it is suspended, the fetchAllBlocks
    \* frames (innermost last), the requests awaiting a response, the
    \* retrieved page, the resolved block list, the returned value, the
    \* thrown error
    n_pc, n_stack, n_inflight, n_page, n_blocks, n_result, n_error,
    \* history: every provider call in the order issued, with its outcome
    n_log,
    \* one parseMarkdown call: the document, where the call is, the token
    \* stream md.parse returned, the toc, the title, the rendered html, and
    \* (history) how many times the text has been parsed into tokens and the
    \* elements on which the highlighter threw
    md_content, md_pc, md_tokens, md_toc, md_title, md_html, md_parses, md_threw,
    \* the parser instance md: the slug table its anchor rule used in the
    \* last parse; (history) what the parseMarkdown calls made so far
    \* returned, and how many were made
    md_slugs, md_seen, md_calls,
    \* one generateTocHtml call: the toc handed to it and its result
    th_toc, th_out, th_pc,
    \* one extractPageId call: the string handed to it and what it returns
    id_in, id_out, id_pc,
    \* one POST /api/notion/fetch request: where the handler is, the body
    \* of the request, and (history) the responses sent
    h_pc, h_body, h_sent,
    \* pdf.ts: the module variable browser (0 is null), where each call is,
    \* the browser a closeBrowser call is closing, the browsers launched and
    \* not closed, and (history) the launches made, the launches since the
    \* last closeBrowser call and the calls made
    pdf_browser, pdf_pc, pdf_target, pdf_live, pdf_launches, pdf_since, pdf_calls,
    \* a second fetchNotionPage call in flight: its locals while the first
    \* one runs (the n_ variables hold the call that runs), and (history) how
    \* often the event loop went from one call to the other
    o_call, o_switches

rtVars == <<rt_run, rt_out, rt_pc>>
bkVars == <<bk_block, bk_depth, bk_out, bk_pc>>
slVars == <<sl_s, sl_slug, sl_again, sl_pc>>
srcVars == <<n_parent, n_palette, n_hollow, n_key, n_url>>
nVars == <<n_pc, n_stack, n_inflight, n_page, n_blocks, n_result, n_error, n_log>>
mdVars == <<md_content, md_pc, md_tokens, md_toc, md_title, md_html, md_parses,
           md_threw, md_slugs, md_seen, md_calls>>
thVars == <<th_toc, th_out, th_pc>>
idVars == <<id_in, id_out, id_pc>>
routeVars == <<h_pc, h_body, h_sent>>
otherVars == <<o_call, o_switches>>
pdfVars == <<pdf_browser, pdf_pc, pdf_target, pdf_live, pdf_launches, pdf_since,
            pdf_calls>>
vars == <<rtVars, bkVars, slVars, srcVars, nVars, mdVars, thVars, idVars, routeVars, pdfVars, otherVars>>

(***************************************************************************)
(* Bounds                                                                  *)
(***************************************************************************)
\* longest rich-text run drawn as an input of the composer
MaxRun == 2
\* most blocks of a remote page tree
MaxNodes == 4
\* most block-level items of a markdown document
MaxItems == 3
\* most rows of a table block drawn as an input of the block converter
MaxRows == 3
\* longest string drawn as an input of slugify
MaxSlugLen == 4
\* most entries of a toc drawn as an input of generateTocHtml
MaxToc == 2

(***************************************************************************)
(* String helpers (JavaScript string and array primitives)                 *)
(***************************************************************************)
\* Array.prototype.join with the empty separator
RECURSIVE Flatten(_)
Flatten(ss) == IF ss = <<>> THEN <<>> ELSE Head(ss) \o Flatten(Tail(ss))

\* Array.prototype.join(sep)
RECURSIVE Join(_, _)
Join(ss, sep) ==
    IF ss = <<>> THEN <<>>
    ELSE IF Len(ss) = 1 THEN Head(ss)
    ELSE Head(ss) \o sep \o Join(Tail(ss), sep)

\* String.prototype.repeat
RepeatOnce(s, n) == s

RECURSIVE Repeat(_, _)
Repeat(s, n) == IF n <= 0 THEN <<>> ELSE s \o Repeat(s, n - 1)

NL == <<"\n">>
\* the backquote character (a string literal cannot hold it)
BQ == <<"BQ">>

(***************************************************************************)
(* Rich-text composer: notion.ts richTextToMarkdown                        *)
(***************************************************************************)
\* the link wrapped first, the annotation markers around it
FormatSpanLinkInside(text) ==
    LET c0 == IF text.href # <<>>
              THEN <<"[">> \o text.plain_text \o <<"]", "(">> \o text.href \o <<")">>
              ELSE text.plain_text
        c1 == IF text.annotations.bold
              THEN <<"*", "*">> \o c0 \o <<"*", "*">> ELSE c0
        c2 == IF text.annotations.italic THEN <<"*">> \o c1 \o <<"*">> ELSE c1
        c3 == IF text.annotations.strikethrough
              THEN <<"~", "~">> \o c2 \o <<"~", "~">> ELSE c2
    IN  IF text.annotations.code THEN BQ \o c3 \o BQ ELSE c3

\* the callback of richText.map: one span, formatted by its annotations and
\* then wrapped in its link.  Each `if` wraps what the previous ones built.
FormatSpan(text) ==
    LET c0 == text.plain_text                       \* text.plain_text, or the empty string
        c1 == IF text.annotations.bold
              THEN <<"*", "*">> \o c0 \o <<"*", "*">> ELSE c0
        c2 == IF text.annotations.italic THEN <<"*">> \o c1 \o <<"*">> ELSE c1
        c3 == IF text.annotations.strikethrough
              THEN <<"~", "~">> \o c2 \o <<"~", "~">> ELSE c2
        c4 == IF text.annotations.code THEN BQ \o c3 \o BQ ELSE c3
    IN  IF text.href # <<>>                         \* null and the empty string are falsy
        THEN <<"[">> \o c4 \o <<"]", "(">> \o text.href \o <<")">>
        ELSE c4

\* the formatted spans joined with a space
richTextToMarkdownSpaced(richText) ==
    Join([k \in 1..Len(richText) |-> FormatSpan(richText[k])], <<" ">>)

\* a missing run (undefined, not an array) is passed as the empty run: both
\* give the empty string
richTextToMarkdown(richText) ==
    Flatten([k \in 1..Len(richText) |-> FormatSpan(richText[k])])

(***************************************************************************)
(* Block-tree linearizer: notion.ts blocksToMarkdown, blockToMarkdown,     *)
(* tableToMarkdown.  A block is a record [id, type, has_children, data]    *)
(* that gains a field "children" when fetchAllBlocks expands it; data is   *)
(* block[type], a record holding only the fields the payload has.          *)
(***************************************************************************)
\* obj?.field, with what the code uses when the field is missing
Get(obj, field, default) == IF field \in DOMAIN obj THEN obj[field] ELSE default

\* data?.rich_text (a missing run composes to the empty string)
RichTextNever(data) == <<>>

RichText(data) == Get(data, "rich_text", <<>>)

\* the emoji the callout falls back to
BULB == <<"BULB">>

\* the separator pushed after every row, not only when i === 0
tableToMarkdownEveryRow(rows) ==
    IF Len(rows) = 0 THEN <<>>
    ELSE LET RowLines(i) ==
                 LET row == rows[i]
                     cells == IF row.type = "table_row"
                              THEN Get(row.data, "cells", <<>>) ELSE <<>>
                     cellTexts == [k \in 1..Len(cells) |-> richTextToMarkdown(cells[k])]
                     line == <<"|", " ">> \o Join(cellTexts, <<" ", "|", " ">>)
                                 \o <<" ", "|">>
                     sep == <<"|", " ">>
                                \o Join([k \in 1..Len(cells) |-> <<"-", "-", "-">>],
                                        <<" ", "|", " ">>)
                                \o <<" ", "|">>
                 IN  <<line, sep>>
         IN  Join(Flatten([i \in 1..Len(rows) |-> RowLines(i)]), NL)

tableToMarkdown(rows) ==
    IF Len(rows) = 0 THEN <<>>
    ELSE LET RowLines(i) ==
                 LET row == rows[i]
                     cells == IF row.type = "table_row"
                              THEN Get(row.data, "cells", <<>>) ELSE <<>>
                     cellTexts == [k \in 1..Len(cells) |-> richTextToMarkdown(cells[k])]
                     line == <<"|", " ">> \o Join(cellTexts, <<" ", "|", " ">>)
                                 \o <<" ", "|">>
                     sep == <<"|", " ">>
                                \o Join([k \in 1..Len(cells) |-> <<"-", "-", "-">>],
                                        <<" ", "|", " ">>)
                                \o <<" ", "|">>
                 IN  IF i = 1 THEN <<line, sep>> ELSE <<line>>
         IN  Join(Flatten([i \in 1..Len(rows) |-> RowLines(i)]), NL)

\* `if (md) lines.push(md)`: an empty fragment is not pushed
KeepEveryFragment(md) == TRUE

KeepFragment(md) == md # <<>>

RECURSIVE blocksToMarkdown(_, _)
RECURSIVE blockToMarkdown(_, _)

blocksToMarkdown(blocks, depth) ==
    LET mds == [k \in 1..Len(blocks) |-> blockToMarkdown(blocks[k], depth)]
        lines == SelectSeq(mds, KeepFragment)
    IN  Join(lines, NL \o NL)

blockToMarkdown(block, depth) ==
    LET type == block.type
        data == block.data
        text == richTextToMarkdown(RichText(data))
        expanded == "children" \in DOMAIN block
    IN  CASE type = "paragraph" -> text
          [] type = "heading_1" -> <<"#", " ">> \o text
          [] type = "heading_2" -> <<"#", "#", " ">> \o text
          [] type = "heading_3" -> <<"#", "#", "#", " ">> \o text
          [] type = "bulleted_list_item" ->
                LET indent == Repeat(<<" ", " ">>, depth)
                    children == IF expanded
                                THEN blocksToMarkdown(block.children, depth + 1)
                                ELSE <<>>
                IN  indent \o <<"-", " ">> \o text
                        \o (IF children # <<>> THEN NL \o children ELSE <<>>)
          [] type = "numbered_list_item" ->
                LET indent == Repeat(<<" ", " ">>, depth)
                    children == IF expanded
                                THEN blocksToMarkdown(block.children, depth + 1)
                                ELSE <<>>
                IN  indent \o <<"1", ".", " ">> \o text
                        \o (IF children # <<>> THEN NL \o children ELSE <<>>)
          [] type = "to_do" ->
                LET checked == IF Get(data, "checked", FALSE) THEN "x" ELSE " "
                IN  <<"-", " ", "[", checked, "]", " ">> \o text
          [] type = "toggle" ->
                LET children == IF expanded
                                THEN blocksToMarkdown(block.children, depth)
                                ELSE <<>>
                IN  <<"<details>">> \o NL \o <<"<summary>">> \o text
                        \o <<"</summary>">> \o NL \o NL \o children \o NL
                        \o <<"</details>">>
          [] type = "code" ->
                LET language == Get(data, "language", <<>>)
                IN  BQ \o BQ \o BQ \o language \o NL \o text \o NL
                        \o BQ \o BQ \o BQ
          [] type = "quote" -> <<">", " ">> \o text
          [] type = "callout" ->
                LET emoji == Get(Get(data, "icon", <<>>), "emoji", <<>>)
                    icon == IF emoji # <<>> THEN emoji ELSE BULB
                IN  <<">", " ">> \o icon \o <<" ">> \o text
          [] type = "divider" -> <<"-", "-", "-">>
          [] type = "image" ->
                LET url == IF Get(data, "type", "") = "external"
                           THEN Get(Get(data, "external", <<>>), "url", <<>>)
                           ELSE Get(Get(data, "file", <<>>), "url", <<>>)
                    caption == richTextToMarkdown(Get(data, "caption", <<>>))
                IN  IF url # <<>>
                    THEN IF caption # <<>>
                         THEN <<"!", "[">> \o caption \o <<"]", "(">> \o url
                                  \o <<")">> \o NL \o <<"*">> \o caption \o <<"*">>
                         ELSE <<"!", "[", "I", "m", "a", "g", "e", "]", "(">>
                                  \o url \o <<")">>
                    ELSE <<>>
          [] type \in {"bookmark", "link_preview"} ->
                LET url == Get(data, "url", <<>>)
                IN  IF url # <<>>
                    THEN <<"[">> \o url \o <<"]", "(">> \o url \o <<")">>
                    ELSE <<>>
          [] type = "table" ->
                IF ~expanded THEN <<>> ELSE tableToMarkdown(block.children)
          [] type = "table_row" -> <<>>
          [] type \in {"column_list", "column"} ->
                IF expanded THEN blocksToMarkdown(block.children, depth) ELSE <<>>
          [] OTHER -> text

Span(t, bold, italic, strikethrough, code, href) ==
    [plain_text |-> t,
     annotations |-> [bold |-> bold, italic |-> italic,
                      strikethrough |-> strikethrough, code |-> code],
     href |-> href]

\* inputs of the composer
Texts == {<<>>, <<"t">>}
Hrefs == {<<>>, <<"u">>}
Annotations ==
    [bold : BOOLEAN, italic : BOOLEAN, strikethrough : BOOLEAN, code : BOOLEAN]
Spans == [plain_text : Texts, annotations : Annotations, href : Hrefs]
\* a bold span followed by an italic span that links to http://x
ExampleRun ==
    <<Span(<<"a">>, TRUE, FALSE, FALSE, FALSE, <<>>),
      Span(<<"b">>, FALSE, TRUE, FALSE, FALSE, <<"h", "t", "t", "p", ":", "/", "/", "x">>)>>

Runs == UNION {[1..n -> Spans] : n \in 0..MaxRun} \cup {ExampleRun}

RtIdle == rt_run = <<>> /\ rt_out = <<>> /\ rt_pc = "idle"

BkIdle == bk_block = <<>> /\ bk_depth = 0 /\ bk_out = <<>> /\ bk_pc = "idle"

SlIdle == sl_s = <<>> /\ sl_slug = <<>> /\ sl_again = <<>> /\ sl_pc = "idle"

ThIdle == th_toc = <<>> /\ th_out = <<>> /\ th_pc = "idle"

IdIdle == id_in = <<>> /\ id_out = <<>> /\ id_pc = "idle"

HIdle == h_pc = "idle" /\ h_body = "none" /\ h_sent = <<>>

OtherIdle == o_call = <<>> /\ o_switches = 0

PdfIdle ==
    /\ pdf_browser = 0 /\ pdf_pc = <<>> /\ pdf_target = <<>> /\ pdf_live = {}
    /\ pdf_launches = 0 /\ pdf_since = 0 /\ pdf_calls = 0

NotionIdle ==
    /\ n_parent = <<>> /\ n_palette = 1 /\ n_hollow = 0
    /\ n_key = FALSE /\ n_url = "invalid"
    /\ n_pc = "idle" /\ n_stack = <<>> /\ n_inflight = {} /\ n_page = <<>>
    /\ n_blocks = <<>> /\ n_result = <<>> /\ n_error = <<>> /\ n_log = <<>>

MdIdle ==
    /\ md_content = <<>> /\ md_pc = "idle" /\ md_tokens = <<>> /\ md_toc = <<>>
    /\ md_title = <<>> /\ md_html = <<>> /\ md_parses = 0 /\ md_threw = {}
    /\ md_slugs = {} /\ md_seen = {} /\ md_calls = 0

InitRT ==
    /\ rt_run \in Runs /\ rt_out = <<>> /\ rt_pc = "call"
    /\ BkIdle /\ SlIdle /\ NotionIdle /\ MdIdle /\ ThIdle /\ IdIdle /\ HIdle /\ PdfIdle /\ OtherIdle

Compose ==
    /\ rt_pc = "call"
    /\ rt_out' = richTextToMarkdown(rt_run)
    /\ rt_pc' = "done"
    /\ UNCHANGED <<rt_run, bkVars, slVars, srcVars, nVars, mdVars, thVars, idVars, routeVars, pdfVars, otherVars>>

NextRT == Compose

SpecRichText == InitRT /\ [][NextRT]_vars

(***************************************************************************)
(* One call of blockToMarkdown on a block as fetchAllBlocks leaves it      *)
(***************************************************************************)
\* the rich-text runs of the payloads: empty, plain, annotated, linked
BlockRuns ==
    { <<>>,
      <<Span(<<"t">>, FALSE, FALSE, FALSE, FALSE, <<>>)>>,
      <<Span(<<"b">>, TRUE, FALSE, FALSE, TRUE, <<>>)>>,
      <<Span(<<"t">>, FALSE, FALSE, FALSE, FALSE, <<>>),
        Span(<<"k">>, FALSE, TRUE, FALSE, FALSE, <<"u">>)>> }

Block(type, data) == [id |-> 0, type |-> type, has_children |-> FALSE, data |-> data]

\* block.children = await fetchAllBlocks(client, block.id)
WithChildren(block, children) ==
    ("children" :> children) @@ [block EXCEPT !.has_children = TRUE]

\* a payload that is missing, or holds a rich-text run
TextPayloads == {<<>>} \cup {[rich_text |-> r] : r \in BlockRuns}

\* the kinds whose payload is read for its rich text only; "unsupported"
\* and "embed" stand for the kinds the switch does not name
TextKinds ==
    {"paragraph", "heading_1", "heading_2", "heading_3", "quote", "divider",
     "table_row", "unsupported", "embed"}

ContainerKinds ==
    {"bulleted_list_item", "numbered_list_item", "toggle", "column_list", "column"}

TextBlocks == {Block(type, data) : type \in TextKinds, data \in TextPayloads}

OtherPayloads(type) ==
    CASE type = "to_do" ->
            TextPayloads \cup {[rich_text |-> r, checked |-> c] :
                                  r \in BlockRuns, c \in BOOLEAN}
      [] type = "code" ->
            TextPayloads \cup {[rich_text |-> r, language |-> l] :
                                  r \in BlockRuns, l \in {<<>>, <<"j", "s">>}}
      [] type = "callout" ->
            TextPayloads
                \cup {[rich_text |-> r, icon |-> [type |-> "emoji", emoji |-> <<"E">>]] :
                         r \in BlockRuns}
                \cup {[rich_text |-> r, icon |-> [type |-> "external"]] : r \in BlockRuns}
      [] type \in {"bookmark", "link_preview"} ->
            {<<>>, [caption |-> <<>>], [url |-> <<"u">>]}
      [] type = "image" ->
            LET sources == {[type |-> "external", external |-> [url |-> <<"u">>]],
                            [type |-> "external"],
                            [type |-> "external", file |-> [url |-> <<"f">>]],
                            [type |-> "file", file |-> [url |-> <<"f">>]],
                            [type |-> "file", file |-> <<>>]}
            IN  {<<>>} \cup sources
                    \cup {("caption" :> r) @@ src : src \in sources, r \in BlockRuns}

OtherBlocks ==
    UNION {{Block(type, data) : data \in OtherPayloads(type)} :
              type \in {"to_do", "code", "callout", "bookmark", "link_preview", "image"}}

\* the rows of a table: table_row blocks of 0 to 2 cells, or a block of
\* another kind found among the children
CellRuns == {<<Span(<<"t">>, FALSE, FALSE, FALSE, FALSE, <<>>)>>,
             <<Span(<<"b">>, TRUE, FALSE, FALSE, FALSE, <<>>)>>}

RowBlocks ==
    {Block("table_row", [cells |-> cells]) :
        cells \in UNION {[1..n -> CellRuns] : n \in 0..2}}
        \cup {Block("paragraph", [rich_text |-> <<>>])}

TableBlocks ==
    {Block("table", data) : data \in {<<>>, [table_width |-> 2]}}
        \cup {WithChildren(Block("table", [table_width |-> 2]), rows) :
                 rows \in UNION {[1..n -> RowBlocks] : n \in 0..MaxRows}}

\* the children of a container: none fetched, or up to two blocks, some of
\* them with an empty fragment
ChildBlocks ==
    {Block("paragraph", [rich_text |-> <<Span(<<"p">>, FALSE, FALSE, FALSE, FALSE, <<>>)>>]),
     Block("bulleted_list_item",
           [rich_text |-> <<Span(<<"i">>, FALSE, FALSE, FALSE, FALSE, <<>>)>>]),
     Block("unsupported", <<>>)}

ContainerBlocks ==
    LET bare == {Block(type, data) : type \in ContainerKinds, data \in TextPayloads}
    IN  bare \cup {WithChildren(b, kids) :
                      b \in bare, kids \in UNION {[1..n -> ChildBlocks] : n \in 0..2}}

Blocks == TextBlocks \cup OtherBlocks \cup TableBlocks \cup ContainerBlocks

Depths == 0..2

InitBlock ==
    /\ bk_block \in Blocks /\ bk_depth \in Depths /\ bk_out = <<>> /\ bk_pc = "call"
    /\ RtIdle /\ SlIdle /\ NotionIdle /\ MdIdle /\ ThIdle /\ IdIdle /\ HIdle /\ PdfIdle /\ OtherIdle

ConvertBlock ==
    /\ bk_pc = "call"
    /\ bk_out' = blockToMarkdown(bk_block, bk_depth)
    /\ bk_pc' = "done"
    /\ UNCHANGED <<bk_block, bk_depth, rtVars, slVars, srcVars, nVars, mdVars, thVars, idVars, routeVars, pdfVars, otherVars>>

NextBlock == ConvertBlock

SpecBlock == InitBlock /\ [][NextBlock]_vars

(***************************************************************************)
(* notion.ts extractPageId.  null is <<>>, a returned string s is <<s>>.   *)
(***************************************************************************)
\* [a-f0-9] under the i flag
IsHex(c) ==
    c \in {"0", "1", "2", "3", "4", "5", "6", "7", "8", "9",
           "a", "b", "c", "d", "e", "f", "A", "B", "C", "D", "E", "F"}

\* .replace(/-/g, '')
removeHyphens(s) == SelectSeq(s, LAMBDA c : c # "-")

\* the lengths the three patterns ask for
IdLen == 32
DashedLen == 36

\* (?:\?|$) at position k: the end of the input, or a question mark
EndOrQuery(s, k) == k > Len(s) \/ s[k] = "?"

\* urlOrId.match(/([a-f0-9]{32})(?:\?|$)/i): the first group of the leftmost
\* match, as <<group>>, or <<>> without a match
urlMatch(s) ==
    LET at == {i \in 1..(Len(s) - IdLen + 1) :
                  /\ \A k \in i..(i + IdLen - 1) : IsHex(s[k])
                  /\ EndOrQuery(s, i + IdLen)}
    IN  IF at = {} THEN <<>>
        ELSE LET i == CHOOSE x \in at : \A y \in at : x <= y
             IN  <<SubSeq(s, i, i + IdLen - 1)>>

\* urlOrId.match(/([a-f0-9-]{36})(?:\?|$)/i)
pathMatch(s) ==
    LET at == {i \in 1..(Len(s) - DashedLen + 1) :
                  /\ \A k \in i..(i + DashedLen - 1) : IsHex(s[k]) \/ s[k] = "-"
                  /\ EndOrQuery(s, i + DashedLen)}
    IN  IF at = {} THEN <<>>
        ELSE LET i == CHOOSE x \in at : \A y \in at : x <= y
             IN  <<SubSeq(s, i, i + DashedLen - 1)>>

extractPageId(urlOrId) ==
    LET cleanId == removeHyphens(urlOrId)
    IN  IF Len(cleanId) = IdLen /\ \A k \in 1..Len(cleanId) : IsHex(cleanId[k])
        THEN <<cleanId>>
        ELSE IF urlMatch(urlOrId) # <<>> THEN urlMatch(urlOrId)
        ELSE IF pathMatch(urlOrId) # <<>>
        THEN <<removeHyphens(pathMatch(urlOrId)[1])>>
        ELSE <<>>

\* inputs of extractPageId: a prefix, a body of hex digits around a run of
\* hyphens (or the canonical dashed id, or letters that are no hex digits),
\* and a suffix
Run(c, n) == [k \in 1..n |-> c]

CanonicalId ==
    Run("a", 8) \o <<"-">> \o Run("B", 4) \o <<"-">> \o Run("0", 4) \o <<"-">>
        \o Run("9", 4) \o <<"-">> \o Run("f", 12)

HexRuns == {0, 1, 16, 31, 32}
HyphenRuns == {0, 1, 4, 5, 36}

IdBodies ==
    {Run("a", h1) \o Run("-", d) \o Run("F", h2) :
        h1 \in HexRuns, d \in HyphenRuns, h2 \in HexRuns}
        \cup {CanonicalId, Run("g", 32), Run("a", 31) \o <<"g">>}

UrlPrefixes ==
    {<<>>, <<"h", "t", "t", "p", "s", ":", "/", "/", "n", "o", "t", "i", "o", "n", ".", "s", "o", "/">>,
     <<"h", "t", "t", "p", "s", ":", "/", "/", "n", "o", "t", "i", "o", "n", ".", "s", "o", "/", "M", "y", "-", "P", "a", "g", "e", "-">>}

UrlSuffixes == {<<>>, <<"?", "v", "=", "1">>, <<"/">>}

PageIdInputs == {p \o b \o x : p \in UrlPrefixes, b \in IdBodies, x \in UrlSuffixes}

InitPageId ==
    /\ id_in \in PageIdInputs /\ id_out = <<>> /\ id_pc = "call"
    /\ RtIdle /\ BkIdle /\ SlIdle /\ ThIdle /\ NotionIdle /\ MdIdle /\ HIdle /\ PdfIdle /\ OtherIdle

ExtractPageId ==
    /\ id_pc = "call"
    /\ id_out' = extractPageId(id_in)
    /\ id_pc' = "done"
    /\ UNCHANGED <<id_in, rtVars, bkVars, slVars, thVars, srcVars, nVars, mdVars, routeVars, pdfVars, otherVars>>

NextPageId == ExtractPageId

SpecPageId == InitPageId /\ [][NextPageId]_vars

(***************************************************************************)
(* The remote page source (the Notion API behind client.pages.retrieve     *)
(* and client.blocks.children.list), for one page tree.                    *)
(***************************************************************************)
RootId == 0

NumNodes == Len(n_parent)

\* every tree of n blocks: block i hangs under the page or an earlier block,
\* siblings are listed in increasing id
Shapes(n) == {f \in [1..n -> 0..(n - 1)] : \A i \in 1..n : f[i] < i}

RECURSIVE KidsFrom(_, _)
KidsFrom(p, i) ==
    IF i > NumNodes THEN <<>>
    ELSE IF n_parent[i] = p THEN <<i>> \o KidsFrom(p, i + 1)
    ELSE KidsFrom(p, i + 1)

\* the ids of the children of block (or page) p, in document order
Kids(p) == KidsFrom(p, 1)

PlainSpan(t) ==
    [plain_text |-> t,
     annotations |-> [bold |-> FALSE, italic |-> FALSE,
                      strikethrough |-> FALSE, code |-> FALSE],
     href |-> <<>>]

\* the text of block i: its id
Txt(i) == <<PlainSpan(<<ToString(i)>>)>>

\* block kinds by position; a tree takes one of these rows, repeated
Palettes ==
    << <<"bulleted_list_item", "paragraph", "unsupported", "numbered_list_item", "toggle">>,
       <<"unsupported", "bulleted_list_item", "table_row", "paragraph", "column_list">>,
       <<"paragraph", "image", "toggle", "unsupported", "bulleted_list_item">>,
       <<"bulleted_list_item", "toggle", "numbered_list_item", "bulleted_list_item", "column_list">>,
       <<"numbered_list_item", "column_list", "column", "bulleted_list_item", "toggle">> >>

TypeOf(i) ==
    LET row == Palettes[n_palette] IN row[((i - 1) % Len(row)) + 1]

\* block[type] as the API returns it for block i
DataOf(i) ==
    LET type == TypeOf(i)
    IN  CASE type \in {"unsupported", "column_list", "column"} -> <<>>
          [] type = "table_row" -> [cells |-> <<Txt(i)>>]
          [] type = "image" -> [type |-> "external", caption |-> Txt(i)]
          [] OTHER -> [rich_text |-> Txt(i)]

\* one element of response.results
RawBlock(i) ==
    [id |-> i, type |-> TypeOf(i), data |-> DataOf(i),
     has_children |-> (Kids(i) # <<>>) \/ (i = n_hollow)]

\* page_size of the request: no response holds more results
PageSize == 100

\* the responses the source may give to a children listing: the next 1 to
\* page_size children after the cursor (the cursor counts the children
\* already served), has_more and next_cursor set when children remain
Responses(req) ==
    LET all == Kids(req.block_id)
        rest == Len(all) - req.start_cursor
        sizes == IF rest <= 0 THEN {0}
                 ELSE {k \in 1..rest : k <= PageSize}
    IN  {[results |-> [j \in 1..k |-> RawBlock(all[req.start_cursor + j])],
          has_more |-> req.start_cursor + k < Len(all),
          next_cursor |-> IF req.start_cursor + k < Len(all)
                          THEN req.start_cursor + k ELSE 0] : k \in sizes}

\* a title property holding one rich-text item
TitleProp(t) == [type |-> "title", title |-> <<[plain_text |-> t]>>]

\* the page object pages.retrieve returns: its properties, icon and cover
\* vary with the palette and the size of the tree
PageObject ==
    CASE n_palette = 1 -> [properties |-> [title |-> TitleProp(<<"T">>)]]
      [] n_palette = 2 -> [properties |-> [Name |-> TitleProp(<<"N">>)],
                           icon |-> [type |-> "emoji", emoji |-> <<"E">>]]
      [] NumNodes % 2 = 0 -> [properties |-> [Titel |-> TitleProp(<<"L">>),
                                              Tags |-> [type |-> "multi_select"]],
                              cover |-> [type |-> "external",
                                         external |-> [url |-> <<"c">>]]]
      [] OTHER -> [properties |-> <<>>,
                   icon |-> [type |-> "external", external |-> [url |-> <<"i">>]],
                   cover |-> [type |-> "file", file |-> [url |-> <<"f">>]]]

\* messages of the errors the source raises
RemoteErrors == {"Could not find block", "API token is unauthorized", "rate limited"}

\* the text of a message in pieces: the phrases the route looks for are
\* pieces of their own
MessageText(message) ==
    CASE message = "Could not find block" -> <<"Could not find", " block">>
      [] message = "API token is unauthorized" -> <<"API token is ", "unauthorized">>
      [] OTHER -> <<message>>

\* message.includes(phrase)
includes(message, phrase) ==
    \E k \in 1..Len(MessageText(message)) : MessageText(message)[k] = phrase

\* what body.url may hold: the dashed id of the page, the id of a page the
\* source does not have, a string without an id, and two strings without
\* an id that end in 36 hex digits and hyphens
UrlText(url) ==
    CASE url = "valid" -> CanonicalId
      [] url = "other" -> Run("c", IdLen)
      [] url = "junk" -> Run("a", IdLen - 1) \o Run("-", DashedLen - IdLen + 1)
      [] url = "hyphens" -> Run("-", DashedLen)
      [] OTHER -> <<"h", "t", "t", "p", "s", ":", "/", "/", "n", "o", "t", "i", "o", "n", ".", "s", "o", "/">>

\* the id the source knows no page of
NoPage == -1

(***************************************************************************)
(* notion.ts fetchNotionPage and fetchAllBlocks                            *)
(***************************************************************************)
\* const pageId = extractPageId(url), as the test !pageId and the request
\* see it: <<>> when it is null or the empty string, else the page it names
PageIdOf(url) ==
    LET pageId == extractPageId(UrlText(url))
    IN  IF pageId = <<>> \/ pageId[1] = <<>> THEN <<>>
        ELSE IF pageId[1] = removeHyphens(CanonicalId) THEN <<RootId>>
        ELSE <<NoPage>>

\* prop?.title?.[0]?.plain_text, the empty string when any link is missing
FirstPlainText(prop) ==
    LET items == Get(prop, "title", <<>>)
    IN  IF items = <<>> THEN <<>> ELSE Get(items[1], "plain_text", <<>>)

\* extractPageTitle: properties.title, properties.Name, any property of
\* type title, else 'Untitled'
extractPageTitle(page) ==
    LET props == Get(page, "properties", <<>>)
        titled == {name \in DOMAIN props :
                     /\ Get(props[name], "type", "") = "title"
                     /\ FirstPlainText(props[name]) # <<>>}
    IN  IF FirstPlainText(Get(props, "title", <<>>)) # <<>>
        THEN FirstPlainText(props.title)
        ELSE IF FirstPlainText(Get(props, "Name", <<>>)) # <<>>
        THEN FirstPlainText(props.Name)
        ELSE IF titled # {}
        THEN FirstPlainText(props[CHOOSE name \in titled : TRUE])
        ELSE <<"Untitled">>

\* the icon or cover as its string, <<>> for undefined
extractIcon(page) ==
    LET icon == Get(page, "icon", <<>>)
    IN  IF Get(icon, "type", "") = "emoji" THEN icon.emoji
        ELSE IF Get(icon, "type", "") = "external" THEN icon.external.url
        ELSE <<>>

extractCover(page) ==
    LET cover == Get(page, "cover", <<>>)
    IN  IF Get(cover, "type", "") = "external" THEN cover.external.url
        ELSE IF Get(cover, "type", "") = "file" THEN cover.file.url
        ELSE <<>>

Request(op, id, cursor) == [op |-> op, block_id |-> id, start_cursor |-> cursor]

\* a log entry of a call just issued
Pending(req) ==
    [op |-> req.op, block_id |-> req.block_id, start_cursor |-> req.start_cursor,
     status |-> "pending", results |-> <<>>, has_more |-> FALSE,
     next_cursor |-> 0, error |-> ""]

\* the log with the (latest) pending entry of req settled
Settle(log, req, status, resp, err) ==
    LET ks == {k \in 1..Len(log) :
                 /\ log[k].status = "pending" /\ log[k].op = req.op
                 /\ log[k].block_id = req.block_id
                 /\ log[k].start_cursor = req.start_cursor}
        k == CHOOSE x \in ks : \A y \in ks : y <= x
    IN  [log EXCEPT ![k] = [@ EXCEPT !.status = status,
                                     !.results = [j \in 1..Len(resp.results) |-> resp.results[j].id],
                                     !.has_more = resp.has_more,
                                     !.next_cursor = resp.next_cursor,
                                     !.error = err]]

NoResponse == [results |-> <<>>, has_more |-> FALSE, next_cursor |-> 0]

\* blocks.push(...response.results)
PushResultsFirst(blocks, results) == results \o blocks

PushResults(blocks, results) == blocks \o results

\* cursor = response.has_more ? response.next_cursor ?? undefined : undefined
\* (0 is undefined)
NextCursorNever(response) == 0

NextCursor(response) == IF response.has_more THEN response.next_cursor ELSE 0

\* the for loop over blocks after position `from`: the positions whose
\* fetchAllBlocks call is started before the loop suspends.  Each call is
\* awaited, so it is the next block flagged has_children, if any.
LoopTargetsUnawaited(blocks, from) ==
    SelectSeq([k \in 1..Len(blocks) |-> k],
              LAMBDA k : k > from /\ blocks[k].has_children)

LoopTargetsOnce(blocks, from) ==
    LET flagged == {k \in 1..Len(blocks) : blocks[k].has_children}
    IN  IF from # 0 \/ flagged = {} THEN <<>>
        ELSE <<CHOOSE k \in flagged : \A m \in flagged : k <= m>>

\* the loop without its test of has_children
LoopTargetsEvery(blocks, from) ==
    IF from >= Len(blocks) THEN <<>> ELSE <<from + 1>>

LoopTargets(blocks, from) ==
    LET flagged == {k \in 1..Len(blocks) : k > from /\ blocks[k].has_children}
    IN  IF flagged = {} THEN <<>>
        ELSE <<CHOOSE k \in flagged : \A m \in flagged : k <= m>>

Frame(id) == [id |-> id, blocks |-> <<>>, i |-> 0]

\* fetchAllBlocks from the end of the pagination loop of the innermost frame
\* to the next await, or to the return of the outermost call: run the for
\* loop; with no block left to expand return blocks to the caller, which
\* assigns block.children and goes on with its own loop.
RECURSIVE Continue(_)
Continue(stack) ==
    LET top == stack[Len(stack)]
        targets == LoopTargets(top.blocks, top.i)
    IN  IF targets # <<>>
        THEN LET j == Head(targets)
             IN  [stack |-> Append([stack EXCEPT ![Len(stack)].i = j],
                                   Frame(top.blocks[j].id)),
                  requests |-> [k \in 1..Len(targets) |->
                                   Request("list", top.blocks[targets[k]].id, 0)],
                  returned |-> FALSE, value |-> <<>>]
        ELSE IF Len(stack) = 1
        THEN [stack |-> <<>>, requests |-> <<>>, returned |-> TRUE,
              value |-> top.blocks]
        ELSE LET caller == stack[Len(stack) - 1]
                 block == ("children" :> top.blocks) @@ caller.blocks[caller.i]
             IN  Continue(Append(SubSeq(stack, 1, Len(stack) - 2),
                                 [caller EXCEPT !.blocks[caller.i] = block]))

Range(s) == {s[k] : k \in 1..Len(s)}

\* fetchNotionPage up to its first await
StartCall ==
    /\ n_pc = "start"
    /\ IF ~n_key
       THEN /\ n_pc' = "failed"
            /\ n_error' = <<"Notion integration is not configured">>
            /\ UNCHANGED <<n_inflight, n_log>>
       ELSE IF PageIdOf(n_url) = <<>>
       THEN /\ n_pc' = "failed"
            /\ n_error' = <<"Invalid Notion page URL or ID">>
            /\ UNCHANGED <<n_inflight, n_log>>
       ELSE LET req == Request("retrieve", PageIdOf(n_url)[1], 0)
            IN  /\ n_pc' = "await_page"
                /\ n_inflight' = {req}
                /\ n_log' = Append(n_log, Pending(req))
                /\ UNCHANGED n_error
    /\ UNCHANGED <<n_stack, n_page, n_blocks, n_result>>

Start ==
    /\ StartCall
    /\ UNCHANGED <<srcVars, rtVars, bkVars, slVars, mdVars, thVars, idVars, routeVars, pdfVars, otherVars>>

\* client.pages.retrieve resolves: the title is extracted and fetchAllBlocks
\* issues its first listing
PageResponds ==
    /\ n_pc = "await_page"
    /\ \E req \in n_inflight :
         /\ req.op = "retrieve"
         /\ req.block_id = RootId
         /\ LET first == Request("list", req.block_id, 0)
            IN  /\ n_page' = <<PageObject>>
                /\ n_stack' = <<Frame(req.block_id)>>
                /\ n_inflight' = (n_inflight \ {req}) \cup {first}
                /\ n_log' = Append(Settle(n_log, req, "ok", NoResponse, ""),
                                   Pending(first))
                /\ n_pc' = "await_list"
    /\ UNCHANGED <<srcVars, rtVars, bkVars, slVars, mdVars, n_blocks, n_result, n_error, thVars, idVars, routeVars, pdfVars, otherVars>>

\* a provider call rejects: nothing catches it, the whole call rejects
OnRejected(req, err) ==
    /\ n_pc' = "failed"
    /\ n_error' = <<err>>
    /\ n_stack' = <<>>
    /\ n_inflight' = n_inflight \ {req}
    /\ n_log' = Settle(n_log, req, "error", NoResponse, err)
    /\ UNCHANGED <<srcVars, rtVars, bkVars, slVars, mdVars, n_page, n_blocks, n_result, thVars, idVars, routeVars, pdfVars, otherVars>>

PageRejects ==
    /\ n_pc = "await_page"
    /\ \E req \in n_inflight, err \in RemoteErrors :
         req.op = "retrieve" /\ OnRejected(req, err)

\* client.blocks.children.list resolves with one page of results
OnListResolved(req, response, status, err) ==
    LET top == n_stack[Len(n_stack)]
        blocks == PushResults(top.blocks, response.results)
        cursor == NextCursor(response)
        stack == [n_stack EXCEPT ![Len(n_stack)].blocks = blocks]
        log == Settle(n_log, req, status, response, err)
    IN  IF cursor # 0
        THEN LET next == Request("list", top.id, cursor)
             IN  /\ n_stack' = stack
                 /\ n_inflight' = (n_inflight \ {req}) \cup {next}
                 /\ n_log' = Append(log, Pending(next))
                 /\ n_pc' = "await_list"
                 /\ UNCHANGED n_blocks
        ELSE LET c == Continue(stack)
             IN  /\ n_stack' = c.stack
                 /\ n_inflight' = (n_inflight \ {req}) \cup Range(c.requests)
                 /\ n_log' = log \o [k \in 1..Len(c.requests) |-> Pending(c.requests[k])]
                 /\ n_pc' = IF c.returned THEN "fetched" ELSE "await_list"
                 /\ n_blocks' = IF c.returned THEN c.value ELSE n_blocks

ListResponds ==
    /\ n_pc = "await_list"
    /\ \E req \in n_inflight :
         /\ req.op = "list"
         /\ req.block_id = n_stack[Len(n_stack)].id
         /\ \E response \in Responses(req) : OnListResolved(req, response, "ok", "")
    /\ UNCHANGED <<srcVars, rtVars, bkVars, slVars, mdVars, n_page, n_result, n_error, thVars, idVars, routeVars, pdfVars, otherVars>>

\* a rejected listing swallowed as an empty last page
OnListRejectedSwallowed(req, err) ==
    /\ OnListResolved(req, NoResponse, "error", err)
    /\ UNCHANGED <<srcVars, rtVars, bkVars, slVars, mdVars, n_page, n_result, n_error, thVars, idVars, routeVars, pdfVars, otherVars>>

OnListRejected(req, err) == OnRejected(req, err)

ListRejects ==
    /\ n_pc = "await_list"
    /\ \E req \in n_inflight, err \in RemoteErrors :
         /\ req.op = "list"
         /\ req.block_id = n_stack[Len(n_stack)].id
         /\ OnListRejected(req, err)

\* fetchAllBlocks has resolved: convert and return
Convert ==
    /\ n_pc = "fetched"
    /\ n_result' = <<[title |-> extractPageTitle(n_page[1]),
                      markdown |-> blocksToMarkdown(n_blocks, 0),
                      icon |-> extractIcon(n_page[1]),
                      cover |-> extractCover(n_page[1])]>>
    /\ n_pc' = "done"
    /\ UNCHANGED <<srcVars, rtVars, bkVars, slVars, mdVars, n_stack, n_inflight, n_page, n_blocks,
                   n_error, n_log, thVars, idVars, routeVars, pdfVars, otherVars>>

InitNotion ==
    /\ n_parent \in UNION {Shapes(n) : n \in 0..MaxNodes}
    /\ n_palette \in 1..Len(Palettes)
    /\ n_hollow \in {0} \cup {i \in 1..Len(n_parent) :
                                \A k \in 1..Len(n_parent) : n_parent[k] # i}
    /\ n_key \in BOOLEAN
    /\ n_url \in {"valid", "invalid"}
    /\ n_pc = "start" /\ n_stack = <<>> /\ n_inflight = {} /\ n_page = <<>>
    /\ n_blocks = <<>> /\ n_result = <<>> /\ n_error = <<>> /\ n_log = <<>>
    /\ RtIdle /\ BkIdle /\ SlIdle /\ MdIdle /\ ThIdle /\ IdIdle /\ HIdle /\ PdfIdle /\ OtherIdle

NextNotion ==
    \/ Start
    \/ PageResponds
    \/ PageRejects
    \/ ListResponds
    \/ ListRejects
    \/ Convert

Spec == InitNotion /\ [][NextNotion]_vars

\* the responses of a source that reports has_more without a cursor:
\* {results, has_more: true, next_cursor: null}
CursorlessResponses(req) ==
    {[r EXCEPT !.next_cursor = 0] : r \in {x \in Responses(req) : x.has_more}}

\* client.blocks.children.list resolves with such a response
ListRespondsNoCursor ==
    /\ n_pc = "await_list"
    /\ \E req \in n_inflight :
         /\ req.op = "list"
         /\ req.block_id = n_stack[Len(n_stack)].id
         /\ \E response \in CursorlessResponses(req) :
               OnListResolved(req, response, "ok", "")
    /\ UNCHANGED <<srcVars, rtVars, bkVars, slVars, mdVars, n_page, n_result, n_error, thVars, idVars, routeVars, pdfVars, otherVars>>

\* fetchNotionPage against a source whose next_cursor may be null whatever
\* has_more says, as the type of the response allows
NextLoose == NextNotion \/ ListRespondsNoCursor

SpecLoose == InitNotion /\ [][NextLoose]_vars

\* the source never fails: every request is answered, and a settled
\* promise resumes the call that awaits it
NextAnswered ==
    \/ Start
    \/ PageResponds
    \/ ListResponds
    \/ Convert

MaxAnsweredNodes == 3

InitAnswered ==
    /\ n_parent \in UNION {Shapes(n) : n \in 0..MaxAnsweredNodes}
    /\ n_palette \in 1..Len(Palettes)
    /\ n_hollow \in {0} \cup {i \in 1..Len(n_parent) :
                                \A k \in 1..Len(n_parent) : n_parent[k] # i}
    /\ n_key \in BOOLEAN
    /\ n_url \in {"valid", "invalid"}
    /\ n_pc = "start" /\ n_stack = <<>> /\ n_inflight = {} /\ n_page = <<>>
    /\ n_blocks = <<>> /\ n_result = <<>> /\ n_error = <<>> /\ n_log = <<>>
    /\ RtIdle /\ BkIdle /\ SlIdle /\ MdIdle /\ ThIdle /\ IdIdle /\ HIdle /\ PdfIdle /\ OtherIdle

SpecAnswered == InitAnswered /\ [][NextAnswered]_vars /\ WF_vars(NextAnswered)

(***************************************************************************)
(* The route POST /api/notion/fetch of handleNotion.  ok answers 200,      *)
(* badRequest 400, serverError 500.                                        *)
(***************************************************************************)
MaxRouteNodes == 2

\* the catch block: the status for an error message
StatusOf(message) ==
    IF includes(message, "Could not find") \/ includes(message, "unauthorized")
    THEN 400 ELSE 500

\* the handler up to await json(req)
Receive ==
    /\ h_pc = "call"
    /\ IF ~n_key
       THEN h_sent' = Append(h_sent, 400) /\ h_pc' = "responded"
       ELSE h_sent' = h_sent /\ h_pc' = "await_body"
    /\ UNCHANGED <<h_body, srcVars, nVars, rtVars, bkVars, slVars, mdVars, thVars, idVars, pdfVars, otherVars>>

\* json(req) settles: it rejects, or the body is checked and
\* fetchNotionPage runs up to its first await
BodyRead ==
    /\ h_pc = "await_body"
    /\ IF h_body = "unreadable"
       THEN /\ h_sent' = Append(h_sent, StatusOf("Invalid JSON"))
            /\ h_pc' = "responded" /\ UNCHANGED nVars
       ELSE IF h_body = "nourl" \/ PageIdOf(n_url) = <<>>
       THEN /\ h_sent' = Append(h_sent, 400)
            /\ h_pc' = "responded" /\ UNCHANGED nVars
       ELSE /\ StartCall
            /\ h_sent' = h_sent /\ h_pc' = "fetching"
    /\ UNCHANGED <<h_body, srcVars, rtVars, bkVars, slVars, mdVars, thVars, idVars, pdfVars, otherVars>>

\* await fetchNotionPage(body.url) settles: ok(res, result), or the catch
Respond ==
    /\ h_pc = "fetching"
    /\ n_pc \in {"done", "failed"}
    /\ h_sent' = Append(h_sent, IF n_pc = "done" THEN 200 ELSE StatusOf(n_error[1]))
    /\ h_pc' = "responded"
    /\ UNCHANGED <<h_body, srcVars, nVars, rtVars, bkVars, slVars, mdVars, thVars, idVars, pdfVars, otherVars>>

InitRoute ==
    /\ n_parent \in UNION {Shapes(n) : n \in 0..MaxRouteNodes}
    /\ n_palette \in {1, 4}
    /\ n_hollow = 0
    /\ n_key \in BOOLEAN
    /\ n_url \in {"valid", "other", "junk", "hyphens", "invalid"}
    /\ n_pc = "start" /\ n_stack = <<>> /\ n_inflight = {} /\ n_page = <<>>
    /\ n_blocks = <<>> /\ n_result = <<>> /\ n_error = <<>> /\ n_log = <<>>
    /\ h_pc = "call" /\ h_body \in {"unreadable", "nourl", "url"} /\ h_sent = <<>>
    /\ RtIdle /\ BkIdle /\ SlIdle /\ MdIdle /\ ThIdle /\ IdIdle /\ PdfIdle /\ OtherIdle

NextRoute ==
    \/ Receive
    \/ BodyRead
    \/ PageResponds
    \/ PageRejects
    \/ ListResponds
    \/ ListRejects
    \/ Convert
    \/ Respond

SpecRoute == InitRoute /\ [][NextRoute]_vars

(***************************************************************************)
(* pdf.ts: getBrowser, its callers generatePdf and isPdfServiceAvailable,  *)
(* and closeBrowser, called concurrently.  A call runs from one await to   *)
(* the next without interruption.                                          *)
(***************************************************************************)
\* the calls that may be in flight at once, and the calls made in all
Callers == {1, 2}
MaxCalls == 4

\* generatePdf or isPdfServiceAvailable is called: getBrowser up to its
\* first await, or to its return when the browser exists
CallGetBrowser(p) ==
    /\ pdf_pc[p] = "idle" /\ pdf_calls < MaxCalls
    /\ pdf_pc' = [pdf_pc EXCEPT ![p] = IF pdf_browser = 0 THEN "importing" ELSE "have"]
    /\ pdf_calls' = pdf_calls + 1
    /\ UNCHANGED <<pdf_browser, pdf_target, pdf_live, pdf_launches, pdf_since>>
    /\ UNCHANGED <<rtVars, bkVars, slVars, srcVars, nVars, mdVars, thVars, idVars, routeVars, otherVars>>

\* await import('playwright') resolves: chromium.launch is called
Imported(p) ==
    /\ pdf_pc[p] = "importing"
    /\ pdf_pc' = [pdf_pc EXCEPT ![p] = "launching"]
    /\ UNCHANGED <<pdf_browser, pdf_target, pdf_live, pdf_launches, pdf_since, pdf_calls>>
    /\ UNCHANGED <<rtVars, bkVars, slVars, srcVars, nVars, mdVars, thVars, idVars, routeVars, otherVars>>

\* chromium.launch resolves with a new browser, assigned to browser
Launched(p) ==
    /\ pdf_pc[p] = "launching"
    /\ pdf_launches' = pdf_launches + 1
    /\ pdf_since' = pdf_since + 1
    /\ pdf_live' = pdf_live \cup {pdf_launches + 1}
    /\ pdf_browser' = pdf_launches + 1
    /\ pdf_pc' = [pdf_pc EXCEPT ![p] = "have"]
    /\ UNCHANGED <<pdf_target, pdf_calls>>
    /\ UNCHANGED <<rtVars, bkVars, slVars, srcVars, nVars, mdVars, thVars, idVars, routeVars, otherVars>>

\* chromium.launch rejects: generatePdf rejects, isPdfServiceAvailable
\* returns false
LaunchFails(p) ==
    /\ pdf_pc[p] = "launching"
    /\ pdf_pc' = [pdf_pc EXCEPT ![p] = "idle"]
    /\ UNCHANGED <<pdf_browser, pdf_target, pdf_live, pdf_launches, pdf_since, pdf_calls>>
    /\ UNCHANGED <<rtVars, bkVars, slVars, srcVars, nVars, mdVars, thVars, idVars, routeVars, otherVars>>

\* the caller goes on with the browser getBrowser returned, to its return
UseBrowser(p) ==
    /\ pdf_pc[p] = "have"
    /\ pdf_pc' = [pdf_pc EXCEPT ![p] = "idle"]
    /\ UNCHANGED <<pdf_browser, pdf_target, pdf_live, pdf_launches, pdf_since, pdf_calls>>
    /\ UNCHANGED <<rtVars, bkVars, slVars, srcVars, nVars, mdVars, thVars, idVars, routeVars, otherVars>>

\* closeBrowser up to await browser.close(), or to its return
CallCloseBrowser(p) ==
    /\ pdf_pc[p] = "idle" /\ pdf_calls < MaxCalls
    /\ pdf_pc' = [pdf_pc EXCEPT ![p] = IF pdf_browser # 0 THEN "closing" ELSE "idle"]
    /\ pdf_target' = [pdf_target EXCEPT ![p] = pdf_browser]
    /\ pdf_since' = 0
    /\ pdf_calls' = pdf_calls + 1
    /\ UNCHANGED <<pdf_browser, pdf_live, pdf_launches>>
    /\ UNCHANGED <<rtVars, bkVars, slVars, srcVars, nVars, mdVars, thVars, idVars, routeVars, otherVars>>

\* browser.close() resolves; browser = null
Closed(p) ==
    /\ pdf_pc[p] = "closing"
    /\ pdf_live' = pdf_live \ {pdf_target[p]}
    /\ pdf_browser' = 0
    /\ pdf_pc' = [pdf_pc EXCEPT ![p] = "idle"]
    /\ UNCHANGED <<pdf_target, pdf_launches, pdf_since, pdf_calls>>
    /\ UNCHANGED <<rtVars, bkVars, slVars, srcVars, nVars, mdVars, thVars, idVars, routeVars, otherVars>>

InitPdf ==
    /\ pdf_browser = 0 /\ pdf_pc = [p \in Callers |-> "idle"]
    /\ pdf_target = [p \in Callers |-> 0] /\ pdf_live = {}
    /\ pdf_launches = 0 /\ pdf_since = 0 /\ pdf_calls = 0
    /\ RtIdle /\ BkIdle /\ SlIdle /\ NotionIdle /\ MdIdle /\ ThIdle /\ IdIdle /\ HIdle /\ OtherIdle

NextPdf ==
    \E p \in Callers :
        \/ CallGetBrowser(p)
        \/ Imported(p)
        \/ Launched(p)
        \/ LaunchFails(p)
        \/ UseBrowser(p)
        \/ CallCloseBrowser(p)
        \/ Closed(p)

SpecPdf == InitPdf /\ [][NextPdf]_vars

(***************************************************************************)
(* markdown.ts: the md instance, the anchor plugin, parseMarkdown          *)
(***************************************************************************)
UpperCase == <<"A", "B", "C", "D", "E", "F", "G", "H", "I", "J", "K", "L", "M",
               "N", "O", "P", "Q", "R", "S", "T", "U", "V", "W", "X", "Y", "Z">>
LowerCase == <<"a", "b", "c", "d", "e", "f", "g", "h", "i", "j", "k", "l", "m",
               "n", "o", "p", "q", "r", "s", "t", "u", "v", "w", "x", "y", "z">>
DigitChars == <<"0", "1", "2", "3", "4", "5", "6", "7", "8", "9">>

\* String.prototype.toLowerCase
toLowerCase(s) ==
    [k \in 1..Len(s) |->
        IF \E j \in 1..Len(UpperCase) : UpperCase[j] = s[k]
        THEN LowerCase[CHOOSE j \in 1..Len(UpperCase) : UpperCase[j] = s[k]]
        ELSE s[k]]

\* \s
IsSpace(c) == c \in {" ", "\t", "\n"}

\* \w
IsWordChar(c) == c \in Range(UpperCase) \cup Range(LowerCase) \cup Range(DigitChars) \cup {"_"}

RECURSIVE trimStart(_)
trimStart(s) ==
    IF s # <<>> /\ IsSpace(Head(s)) THEN trimStart(Tail(s)) ELSE s

RECURSIVE trimEnd(_)
trimEnd(s) ==
    IF s # <<>> /\ IsSpace(s[Len(s)]) THEN trimEnd(SubSeq(s, 1, Len(s) - 1)) ELSE s

\* String.prototype.trim
trim(s) == trimEnd(trimStart(s))

\* .replace(/[\s]+/g, '-')
RECURSIVE ReplaceSpaceRuns(_)
ReplaceSpaceRuns(s) ==
    IF s = <<>> THEN <<>>
    ELSE IF IsSpace(Head(s)) THEN <<"-">> \o ReplaceSpaceRuns(trimStart(s))
    ELSE <<Head(s)>> \o ReplaceSpaceRuns(Tail(s))

\* .replace(/[^\w-]/, ''): without the g flag only the first match goes
StripFirstNonWord(s) ==
    LET bad == {k \in 1..Len(s) : ~(IsWordChar(s[k]) \/ s[k] = "-")}
    IN  IF bad = {} THEN s
        ELSE LET k == CHOOSE x \in bad : \A y \in bad : x <= y
             IN  SubSeq(s, 1, k - 1) \o SubSeq(s, k + 1, Len(s))

\* .replace(/[^\w-]/g, '')
StripNonWord(s) == SelectSeq(s, LAMBDA c : IsWordChar(c) \/ c = "-")

\* the slugify option given to the anchor plugin
slugify(s) == StripNonWord(ReplaceSpaceRuns(trim(toLowerCase(s))))

\* inputs of slugify: strings of letters of both cases, blanks, tabs,
\* hyphens, underscores and punctuation
SlugChars == {"A", "b", " ", "\t", "-", "_", "!"}

SlugInputs == UNION {[1..n -> SlugChars] : n \in 0..MaxSlugLen}

InitSlug ==
    /\ sl_s \in SlugInputs /\ sl_slug = <<>> /\ sl_again = <<>> /\ sl_pc = "call"
    /\ RtIdle /\ BkIdle /\ NotionIdle /\ MdIdle /\ ThIdle /\ IdIdle /\ HIdle /\ PdfIdle /\ OtherIdle

\* slugify(s)
Slugify ==
    /\ sl_pc = "call"
    /\ sl_slug' = slugify(sl_s)
    /\ sl_pc' = "slugged"
    /\ UNCHANGED <<sl_s, sl_again, rtVars, bkVars, srcVars, nVars, mdVars, thVars, idVars, routeVars, pdfVars, otherVars>>

\* slugify(slugify(s))
SlugifyAgain ==
    /\ sl_pc = "slugged"
    /\ sl_again' = slugify(sl_slug)
    /\ sl_pc' = "done"
    /\ UNCHANGED <<sl_s, sl_slug, rtVars, bkVars, srcVars, nVars, mdVars, thVars, idVars, routeVars, pdfVars, otherVars>>

NextSlug == Slugify \/ SlugifyAgain

SpecSlug == InitSlug /\ [][NextSlug]_vars

\* the decimal digits of a number, as template literals print it
RECURSIVE Digits(_)
Digits(n) ==
    IF n < 10 THEN <<DigitChars[n + 1]>>
    ELSE Digits(n \div 10) \o <<DigitChars[(n % 10) + 1]>>

\* markdown-it-anchor's uniqueSlug: the slug, or the slug with the first
\* suffix -1, -2, ... that no earlier heading of this parse has taken
RECURSIVE UniqueFrom(_, _, _)
UniqueFrom(slug, slugs, i) ==
    LET uniq == slug \o <<"-">> \o Digits(i)
    IN  IF uniq \in slugs THEN UniqueFrom(slug, slugs, i + 1) ELSE uniq

uniqueSlug(slug, slugs) ==
    IF slug \in slugs THEN UniqueFrom(slug, slugs, 1) ELSE slug

\* A document is a sequence of block-level items, a heading [level, inline]
\* or a paragraph (level 0); an inline is a sequence of parts: plain text,
\* emphasised text, a link or a code span.  SourceOf is the markdown text
\* of an inline, which md.parse keeps as the inline token's content.
PartSource(part) ==
    CASE part.kind = "em" -> <<"*">> \o part.text \o <<"*">>
      [] part.kind = "link" ->
            <<"[">> \o part.text \o <<"]", "(">> \o part.href \o <<")">>
      [] part.kind = "code_inline" -> BQ \o part.text \o BQ
      [] OTHER -> part.text

SourceOf(inline) == Flatten([k \in 1..Len(inline) |-> PartSource(inline[k])])

\* the child tokens md.parse gives an inline token
PartTokens(part) ==
    LET text == [type |-> "text", content |-> part.text]
    IN  CASE part.kind = "em" ->
                <<[type |-> "em_open", content |-> <<>>], text,
                  [type |-> "em_close", content |-> <<>>]>>
          [] part.kind = "link" ->
                <<[type |-> "link_open", content |-> <<>>], text,
                  [type |-> "link_close", content |-> <<>>]>>
          [] part.kind = "code_inline" ->
                <<[type |-> "code_inline", content |-> part.text]>>
          [] OTHER -> <<text>>

Token(type, tag, content, children) ==
    [type |-> type, tag |-> tag, content |-> content, children |-> children,
     attrs |-> <<>>]

\* token.attrSet(name, value) on a token without that attribute
attrSet(token, name, value) ==
    [token EXCEPT !.attrs = Append(@, [name |-> name, value |-> value])]

\* the value of the attribute as <<value>>, or <<>> when it is not set
attrGet(attrs, name) ==
    LET found == SelectSeq(attrs, LAMBDA a : a.name = name)
    IN  IF found = <<>> THEN <<>> ELSE <<found[1].value>>

\* a fenced code block of the text: the tag after the opening fence and
\* the lines between the fences
Fence(lang, code) == [lang |-> lang, code |-> code]

IsFence(item) == "lang" \in DOMAIN item

\* the block rules of md.parse: open, inline, close for every heading and
\* paragraph, one fence token (info: the tag, content: the lines with their
\* line ends) for a fenced code block
ItemTokens(item) ==
    IF IsFence(item)
    THEN <<[type |-> "fence", tag |-> <<"code">>, content |-> item.code \o NL,
            children |-> <<>>, attrs |-> <<>>, info |-> item.lang]>>
    ELSE
    LET tag == IF item.level = 0 THEN <<"p">> ELSE <<"h">> \o Digits(item.level)
        name == IF item.level = 0 THEN "paragraph" ELSE "heading"
    IN  <<Token(name \o "_open", tag, <<>>, <<>>),
          Token("inline", <<>>, SourceOf(item.inline),
                Flatten([k \in 1..Len(item.inline) |-> PartTokens(item.inline[k])])),
          Token(name \o "_close", tag, <<>>, <<>>)>>

\* the anchor plugin's title of a heading: the content of the text and
\* code_inline children of its inline token
getTokensText(children) ==
    LET texts == SelectSeq(children, LAMBDA t : t.type \in {"text", "code_inline"})
    IN  Flatten([k \in 1..Len(texts) |-> texts[k].content])

\* a table that starts from what the parse before left in it
SlugsKept(kept) == kept

\* the anchor rule's const slugs = {}: every parse starts with an empty
\* table, whatever the parse before (kept) put into its own
SlugsOfParse(kept) == {}

\* the anchor plugin's core rule over the first k tokens: every heading_open
\* gets the attribute id = uniqueSlug(slugify(title), slugs)
RECURSIVE Anchored(_, _)
Anchored(tokens, k) ==
    IF k = 0 THEN [out |-> <<>>, slugs |-> SlugsOfParse(md_slugs)]
    ELSE LET prev == Anchored(tokens, k - 1)
             token == tokens[k]
         IN  IF token.type = "heading_open"
             THEN LET title == getTokensText(tokens[k + 1].children)
                      slug == uniqueSlug(slugify(title), prev.slugs)
                  IN  [out |-> Append(prev.out, attrSet(token, "id", slug)),
                       slugs |-> prev.slugs \cup {slug}]
             ELSE [out |-> Append(prev.out, token), slugs |-> prev.slugs]

\* md.parse(content, {}): the token stream, anchors assigned
MdParse(content) ==
    LET tokens == Flatten([k \in 1..Len(content) |-> ItemTokens(content[k])])
    IN  Anchored(tokens, Len(tokens)).out

\* the languages hljs.getLanguage knows, among the tags of the inputs
Languages == {<<"j", "s">>}

\* hljs.highlight(str, {language, ignoreIllegals: true}).value when it
\* returns: the text escaped, inside markup of the highlighter
Highlighted(str) ==
    IF str = <<>> THEN <<>>
    ELSE <<"<span class=\"hljs-built_in\">">> \o str \o <<"</span>">>

\* markdown-it's own escapeHtml: & < > and the double quote
mdEscapeHtml(text) ==
    Flatten([k \in 1..Len(text) |->
        CASE text[k] = "&" -> <<"&", "a", "m", "p", ";">>
          [] text[k] = "<" -> <<"&", "l", "t", ";">>
          [] text[k] = ">" -> <<"&", "g", "t", ";">>
          [] text[k] = "\"" -> <<"&", "q", "u", "o", "t", ";">>
          [] OTHER -> <<text[k]>>])

\* the callback without its try and catch: what hljs.highlight throws
\* leaves the callback
highlightUncaught(str, lang, throws) ==
    IF lang # <<>> /\ lang \in Languages
    THEN IF throws THEN [threw |-> TRUE, value |-> <<>>]
         ELSE [threw |-> FALSE, value |-> Highlighted(mdEscapeHtml(str))]
    ELSE [threw |-> FALSE, value |-> <<>>]

\* the highlight option of md.  throws: hljs.highlight throws on this call.
\* threw: an exception leaves the callback; value: what it returns
highlight(str, lang, throws) ==
    IF lang # <<>> /\ lang \in Languages
    THEN IF throws THEN [threw |-> FALSE, value |-> <<>>]
         ELSE [threw |-> FALSE, value |-> Highlighted(mdEscapeHtml(str))]
    ELSE [threw |-> FALSE, value |-> <<>>]

\* the tokens md.renderer.render makes an element of
Opens(tokens) ==
    SelectSeq([k \in 1..Len(tokens) |-> k],
              LAMBDA k : tokens[k].type \in {"heading_open", "paragraph_open", "fence"})

\* the elements for which the renderer calls hljs.highlight
HighlightCalls(tokens) ==
    {j \in 1..Len(Opens(tokens)) :
        LET token == tokens[Opens(tokens)[j]]
        IN  token.type = "fence" /\ token.info # <<>> /\ token.info \in Languages}

\* markdown-it's fence rule: options.highlight(content, langName) ||
\* escapeHtml(content), in <pre><code class="language-...">
RenderFence(token, throws) ==
    LET hl == highlight(token.content, token.info, throws)
    IN  [tag |-> <<"pre">>,
         attrs |-> IF token.info = <<>> THEN <<>>
                   ELSE <<[name |-> "class", value |-> <<"language-">> \o token.info]>>,
         text |-> IF hl.value # <<>> THEN hl.value ELSE mdEscapeHtml(token.content)]

\* an exception of the highlight callback leaves md.render
RenderThrows(tokens, throws) ==
    \E j \in 1..Len(Opens(tokens)) :
        LET token == tokens[Opens(tokens)[j]]
        IN  /\ token.type = "fence"
            /\ highlight(token.content, token.info, j \in throws).threw

\* the slug table at the end of md.parse(content, {})
MdSlugs(content) ==
    LET tokens == Flatten([k \in 1..Len(content) |-> ItemTokens(content[k])])
    IN  Anchored(tokens, Len(tokens)).slugs

\* md.renderer.render(tokens): one element per open token, with its
\* attributes and the text of the inline token that follows it, and one
\* per fence
Render(tokens, throws) ==
    LET opens == Opens(tokens)
    IN  [j \in 1..Len(opens) |->
            IF tokens[opens[j]].type = "fence"
            THEN RenderFence(tokens[opens[j]], j \in throws)
            ELSE [tag |-> tokens[opens[j]].tag,
                  attrs |-> tokens[opens[j]].attrs,
                  text |-> getTokensText(tokens[opens[j] + 1].children)]]

\* parseInt(token.tag.slice(1), 10)
LevelOfTwo(tag) == 2

LevelOf(tag) ==
    CHOOSE n \in 0..9 : Tail(tag) = <<DigitChars[n + 1]>>

extractToc(tokens) ==
    LET picked == SelectSeq([k \in 1..Len(tokens) |-> k],
            LAMBDA k : /\ tokens[k].type = "heading_open"
                       /\ LevelOf(tokens[k].tag) >= 2
                       /\ LevelOf(tokens[k].tag) <= 3
                       /\ k + 1 <= Len(tokens)
                       /\ tokens[k + 1].type = "inline")
    IN  [j \in 1..Len(picked) |->
            LET text == tokens[picked[j] + 1].content
            IN  [id |-> StripNonWord(ReplaceSpaceRuns(trim(toLowerCase(text)))),
                 text |-> text,
                 level |-> LevelOf(tokens[picked[j]].tag)]]

\* the last level-1 heading, not the first
extractTitleLast(tokens) ==
    LET found == {k \in 1..Len(tokens) :
                    /\ tokens[k].type = "heading_open"
                    /\ tokens[k].tag = <<"h", "1">>
                    /\ k + 1 <= Len(tokens)
                    /\ tokens[k + 1].type = "inline"}
    IN  IF found = {} THEN <<>>
        ELSE <<tokens[(CHOOSE k \in found : \A m \in found : k >= m) + 1].content>>

\* the title as <<content>>, or <<>> for undefined
extractTitle(tokens) ==
    LET found == {k \in 1..Len(tokens) :
                    /\ tokens[k].type = "heading_open"
                    /\ tokens[k].tag = <<"h", "1">>
                    /\ k + 1 <= Len(tokens)
                    /\ tokens[k + 1].type = "inline"}
    IN  IF found = {} THEN <<>>
        ELSE <<tokens[(CHOOSE k \in found : \A m \in found : k <= m) + 1].content>>

\* inputs of parseMarkdown
Part(kind, text, href) == [kind |-> kind, text |-> text, href |-> href]

Inlines ==
    { <<Part("text", <<"O", "n", "e">>, <<>>)>>,
      <<Part("link", <<"O", "n", "e">>, <<"u">>)>>,
      <<Part("text", <<" ", "A", " ", " ">>, <<>>), Part("em", <<"b", "!">>, <<>>)>> }

Items ==
    [level : 1..4, inline : Inlines]
        \cup {[level |-> 0, inline |-> <<Part("text", <<"c">>, <<>>)>>]}

Heading(level, text) == [level |-> level, inline |-> <<Part("text", text, <<>>)>>]

\* "# Title\n\n## One\n\ncontent\n\n### Two\n"
ExampleDocument ==
    <<Heading(1, <<"T", "i", "t", "l", "e">>),
      Heading(2, <<"O", "n", "e">>),
      Heading(0, <<"c", "o", "n", "t", "e", "n", "t">>),
      Heading(3, <<"T", "w", "o">>)>>

\* headings of the levels 5 and 6 around one of level 2, and a document
\* whose first level-1 heading is empty
ExampleDocuments ==
    {ExampleDocument,
     <<Heading(5, <<"O", "n", "e">>), Heading(2, <<"T", "w", "o">>),
       Heading(6, <<"O", "n", "e">>)>>,
     <<Heading(3, <<"T", "w", "o">>), [level |-> 1, inline |-> <<>>],
       Heading(1, <<"O", "n", "e">>)>>}

Documents == UNION {[1..n -> Items] : n \in 0..MaxItems} \cup ExampleDocuments

InitMd ==
    /\ md_content \in Documents
    /\ md_pc = "call" /\ md_tokens = <<>> /\ md_toc = <<>> /\ md_title = <<>>
    /\ md_html = <<>> /\ md_parses = 0 /\ md_threw = {}
    /\ md_slugs = {} /\ md_seen = {} /\ md_calls = 1
    /\ RtIdle /\ BkIdle /\ SlIdle /\ NotionIdle /\ ThIdle /\ IdIdle /\ HIdle /\ PdfIdle /\ OtherIdle

\* const tokens = md.parse(content, {})
ParseTokens ==
    /\ md_pc = "call"
    /\ md_tokens' = MdParse(md_content)
    /\ md_slugs' = MdSlugs(md_content)
    /\ md_parses' = md_parses + 1
    /\ md_pc' = "parsed"
    /\ UNCHANGED <<md_content, md_toc, md_title, md_html, md_threw, md_seen, md_calls, rtVars, bkVars, slVars, srcVars, nVars, thVars, idVars, routeVars, pdfVars, otherVars>>

\* const toc = extractToc(tokens); const title = extractTitle(tokens)
ExtractMetadata ==
    /\ md_pc = "parsed"
    /\ md_toc' = extractToc(md_tokens)
    /\ md_title' = extractTitle(md_tokens)
    /\ md_pc' = "extracted"
    /\ UNCHANGED <<md_content, md_tokens, md_html, md_parses, md_threw, md_slugs, md_seen, md_calls, rtVars, bkVars, slVars, srcVars, nVars, thVars, idVars, routeVars, pdfVars, otherVars>>

\* const html = md.render(content): markdown-it's render(src) is
\* renderer.render(parse(src)), a parse of the text of its own.  hljs may
\* throw on any of the calls the renderer makes (md_threw: on which)
RenderHtml ==
    /\ md_pc = "extracted"
    /\ \E throws \in SUBSET HighlightCalls(MdParse(md_content)) :
          /\ md_threw' = throws
          /\ IF RenderThrows(MdParse(md_content), throws)
             THEN md_html' = <<>> /\ md_pc' = "failed" /\ md_seen' = md_seen
             ELSE LET html == Render(MdParse(md_content), throws)
                  IN  /\ md_html' = html
                      /\ md_pc' = "done"
                      /\ md_seen' = md_seen \cup
                            {[content |-> md_content, threw |-> throws, html |-> html,
                              toc |-> md_toc, title |-> md_title]}
    /\ md_slugs' = MdSlugs(md_content)
    /\ md_parses' = md_parses + 1
    /\ UNCHANGED <<md_content, md_tokens, md_toc, md_title, md_calls, rtVars, bkVars, slVars, srcVars, nVars, thVars, idVars, routeVars, pdfVars, otherVars>>

NextMd == ParseTokens \/ ExtractMetadata \/ RenderHtml

SpecMarkdown == InitMd /\ [][NextMd]_vars

\* texts with fenced code blocks: with a tag hljs knows, with one it does
\* not know and without a tag, between a heading and a paragraph
FenceItems ==
    [lang : {<<>>, <<"j", "s">>, <<"z", "z">>},
     code : {<<"a", "<", "b">>, <<"x", "'">>}]
        \cup {Heading(2, <<"O", "n", "e">>), Heading(0, <<"c">>)}

FenceDocuments == UNION {[1..n -> FenceItems] : n \in 1..MaxItems}

InitFence ==
    /\ md_content \in FenceDocuments
    /\ md_pc = "call" /\ md_tokens = <<>> /\ md_toc = <<>> /\ md_title = <<>>
    /\ md_html = <<>> /\ md_parses = 0 /\ md_threw = {}
    /\ md_slugs = {} /\ md_seen = {} /\ md_calls = 1
    /\ RtIdle /\ BkIdle /\ SlIdle /\ NotionIdle /\ ThIdle /\ IdIdle /\ HIdle /\ PdfIdle /\ OtherIdle

SpecFence == InitFence /\ [][NextMd]_vars

(***************************************************************************)
(* Two fetchNotionPage calls in flight and parseMarkdown calls between     *)
(* their steps.  Every step of a call runs from one await to the next, and *)
(* parseMarkdown, which awaits nothing, runs from its call to its return   *)
(* before anything else does.                                              *)
(***************************************************************************)
MaxConcurrentNodes == 1
MaxSwitches == 2
MaxParses == 2

\* the locals of the call that runs
CallState ==
    [pc |-> n_pc, stack |-> n_stack, inflight |-> n_inflight, page |-> n_page,
     blocks |-> n_blocks, result |-> n_result, error |-> n_error, log |-> n_log]

\* the event loop resumes the other call: the two change places
Switch ==
    /\ o_switches < MaxSwitches
    /\ o_switches' = o_switches + 1
    /\ o_call' = CallState
    /\ n_pc' = o_call.pc /\ n_stack' = o_call.stack /\ n_inflight' = o_call.inflight
    /\ n_page' = o_call.page /\ n_blocks' = o_call.blocks /\ n_result' = o_call.result
    /\ n_error' = o_call.error /\ n_log' = o_call.log
    /\ UNCHANGED <<srcVars, rtVars, bkVars, slVars, mdVars, thVars, idVars, routeVars, pdfVars>>

\* the texts handed to parseMarkdown: two that share a heading
ConcurrentDocuments ==
    {<<Heading(1, <<"T">>), Heading(2, <<"O", "n", "e">>)>>,
     <<Heading(2, <<"O", "n", "e">>), Heading(3, <<"O", "n", "e">>)>>}

\* parseMarkdown(content) is called
CallParseMarkdown ==
    /\ md_pc \in {"idle", "done"}
    /\ md_calls < MaxParses
    /\ md_content' \in ConcurrentDocuments
    /\ md_pc' = "call" /\ md_tokens' = <<>> /\ md_toc' = <<>> /\ md_title' = <<>>
    /\ md_html' = <<>> /\ md_parses' = 0 /\ md_threw' = {}
    /\ md_calls' = md_calls + 1
    /\ UNCHANGED <<md_slugs, md_seen, srcVars, nVars, rtVars, bkVars, slVars, thVars, idVars, routeVars, pdfVars, otherVars>>

\* no parseMarkdown call is running
MdQuiet == md_pc \in {"idle", "done"}

InitConcurrent ==
    /\ n_parent \in UNION {Shapes(n) : n \in 0..MaxConcurrentNodes}
    /\ n_palette = 4
    /\ n_hollow = 0 /\ n_key = TRUE /\ n_url = "valid"
    /\ n_pc = "start" /\ n_stack = <<>> /\ n_inflight = {} /\ n_page = <<>>
    /\ n_blocks = <<>> /\ n_result = <<>> /\ n_error = <<>> /\ n_log = <<>>
    /\ o_call = [pc |-> "start", stack |-> <<>>, inflight |-> {}, page |-> <<>>,
                 blocks |-> <<>>, result |-> <<>>, error |-> <<>>, log |-> <<>>]
    /\ o_switches = 0
    /\ RtIdle /\ BkIdle /\ SlIdle /\ MdIdle /\ ThIdle /\ IdIdle /\ HIdle /\ PdfIdle

NextConcurrent ==
    \/ MdQuiet /\ NextNotion
    \/ MdQuiet /\ Switch
    \/ CallParseMarkdown
    \/ NextMd

SpecConcurrent == InitConcurrent /\ [][NextConcurrent]_vars

(***************************************************************************)
(* markdown.ts generateTocHtml and escapeHtml.  The fixed pieces of the    *)
(* template are single elements of the string.                             *)
(***************************************************************************)
\* the map without the entry for the apostrophe
escapeHtmlNoApostrophe(text) ==
    Flatten([k \in 1..Len(text) |->
        CASE text[k] = "&" -> <<"&", "a", "m", "p", ";">>
          [] text[k] = "<" -> <<"&", "l", "t", ";">>
          [] text[k] = ">" -> <<"&", "g", "t", ";">>
          [] text[k] = "\"" -> <<"&", "q", "u", "o", "t", ";">>
          [] OTHER -> <<text[k]>>])

\* text.replace(/[&<>"']/g, (char) => escapeMap[char])
escapeHtml(text) ==
    Flatten([k \in 1..Len(text) |->
        CASE text[k] = "&" -> <<"&", "a", "m", "p", ";">>
          [] text[k] = "<" -> <<"&", "l", "t", ";">>
          [] text[k] = ">" -> <<"&", "g", "t", ";">>
          [] text[k] = "\"" -> <<"&", "q", "u", "o", "t", ";">>
          [] text[k] = "'" -> <<"&", "#", "3", "9", ";">>
          [] OTHER -> <<text[k]>>])

\* the callback of toc.map: one <li> of the list
TocItem(entry) ==
    LET indent == IF entry.level = 3 THEN <<"toc-indent">> ELSE <<>>
    IN  <<"<li class=\"toc-item ">> \o indent \o <<"\"><a href=\"#">> \o entry.id
            \o <<"\">">> \o escapeHtml(entry.text) \o <<"</a></li>">>

generateTocHtml(toc) ==
    IF Len(toc) = 0 THEN <<>>
    ELSE LET items == Join([k \in 1..Len(toc) |-> TocItem(toc[k])], NL)
         IN  NL \o <<"    ", "<nav class=\"document-toc\" aria-label=\"Table of Contents\">">>
                \o NL \o <<"      ", "<h2 class=\"toc-title\">Contents</h2>">>
                \o NL \o <<"      ", "<ul class=\"toc-list\">">>
                \o NL \o <<"        ">> \o items
                \o NL \o <<"      ", "</ul>">>
                \o NL \o <<"    ", "</nav>">>
                \o NL \o <<"  ">>

\* inputs of generateTocHtml
TocTexts ==
    {<<"a">>, <<"&", "<">>, <<">", "\"", "'">>, <<"&", "a", "m", "p", ";">>}

TocEntries == [id : {<<"a">>, <<"b", "-", "1">>}, text : TocTexts, level : 1..4]

Tocs == UNION {[1..n -> TocEntries] : n \in 0..MaxToc}

InitToc ==
    /\ th_toc \in Tocs /\ th_out = <<>> /\ th_pc = "call"
    /\ RtIdle /\ BkIdle /\ SlIdle /\ NotionIdle /\ MdIdle /\ IdIdle /\ HIdle /\ PdfIdle /\ OtherIdle

GenerateToc ==
    /\ th_pc = "call"
    /\ th_out' = generateTocHtml(th_toc)
    /\ th_pc' = "done"
    /\ UNCHANGED <<th_toc, rtVars, bkVars, slVars, srcVars, nVars, mdVars, idVars, routeVars, pdfVars, otherVars>>

NextToc == GenerateToc

SpecToc == InitToc /\ [][NextToc]_vars

(***************************************************************************)
(* Properties                                                              *)
(***************************************************************************)
\* the h2 and h3 elements of the rendered html, in document order
RenderedTocHeadings ==
    SelectSeq(md_html, LAMBDA e : e.tag \in {<<"h", "2">>, <<"h", "3">>})

\* C1: when parseMarkdown returns, the toc has one entry per rendered h2/h3
\* heading and the id of each entry is the id attribute of that heading.
TocIdsMatchAnchors ==
    md_pc = "done" =>
        /\ Len(md_toc) = Len(RenderedTocHeadings)
        /\ \A k \in 1..Len(md_toc) :
              <<md_toc[k].id>> = attrGet(RenderedTocHeadings[k].attrs, "id")

\* C2: when parseMarkdown returns, the input text has been parsed into a
\* token stream exactly once.
ParsedExactlyOnce == md_pc = "done" => md_parses = 1

\* the nesting the composer is specified to produce: code next to the text,
\* then strikethrough, then italic, bold outermost, the link around all
FormatSpanCodeInnermost(text) ==
    LET c0 == text.plain_text
        c1 == IF text.annotations.code THEN BQ \o c0 \o BQ ELSE c0
        c2 == IF text.annotations.strikethrough
              THEN <<"~", "~">> \o c1 \o <<"~", "~">> ELSE c1
        c3 == IF text.annotations.italic THEN <<"*">> \o c2 \o <<"*">> ELSE c2
        c4 == IF text.annotations.bold
              THEN <<"*", "*">> \o c3 \o <<"*", "*">> ELSE c3
    IN  IF text.href # <<>>
        THEN <<"[">> \o c4 \o <<"]", "(">> \o text.href \o <<")">>
        ELSE c4


\* C3: every span of the run is composed with code innermost, then
\* strikethrough, then italic, then bold outermost.
CodeInnermostNesting ==
    rt_pc = "done" =>
        rt_out = Flatten([k \in 1..Len(rt_run) |-> FormatSpanCodeInnermost(rt_run[k])])

IsList(e) == e.op = "list"

\* the results of the answered listings of block id, in the order received
PagesOf(id) ==
    LET idx == SelectSeq([k \in 1..Len(n_log) |-> k],
                         LAMBDA k : /\ IsList(n_log[k]) /\ n_log[k].block_id = id
                                    /\ n_log[k].status = "ok")
    IN  Flatten([j \in 1..Len(idx) |-> n_log[idx[j]].results])

IdsOf(blocks) == [k \in 1..Len(blocks) |-> blocks[k].id]

\* every block of a fetched tree
RECURSIVE AllBlocks(_)
AllBlocks(blocks) ==
    UNION {{blocks[k]} \cup (IF "children" \in DOMAIN blocks[k]
                              THEN AllBlocks(blocks[k].children) ELSE {})
           : k \in 1..Len(blocks)}

\* C4: the first listing of a node carries no cursor, every later one the
\* cursor of the response just before it, a response with a cursor is
\* followed by the next listing of the node, a response without one ends
\* them, and the child list is the pages concatenated in the order received.
CursorThreading ==
    /\ \A k \in 1..Len(n_log) : IsList(n_log[k]) =>
          /\ (\A j \in 1..(k - 1) : ~(IsList(n_log[j]) /\ n_log[j].block_id = n_log[k].block_id))
                => n_log[k].start_cursor = 0
          /\ n_log[k].start_cursor # 0 =>
                /\ IsList(n_log[k - 1])
                /\ n_log[k - 1].block_id = n_log[k].block_id
                /\ n_log[k - 1].status = "ok"
                /\ n_log[k - 1].next_cursor = n_log[k].start_cursor
          /\ (n_log[k].status = "ok" /\ n_log[k].next_cursor # 0) =>
                /\ k < Len(n_log)
                /\ IsList(n_log[k + 1])
                /\ n_log[k + 1].block_id = n_log[k].block_id
                /\ n_log[k + 1].start_cursor = n_log[k].next_cursor
          /\ (n_log[k].status = "ok" /\ n_log[k].next_cursor = 0) =>
                \A j \in (k + 1)..Len(n_log) :
                    ~(IsList(n_log[j]) /\ n_log[j].block_id = n_log[k].block_id)
    /\ \A f \in 1..Len(n_stack) : IdsOf(n_stack[f].blocks) = PagesOf(n_stack[f].id)
    /\ n_pc \in {"fetched", "done"} =>
          /\ IdsOf(n_blocks) = PagesOf(RootId)
          /\ \A b \in AllBlocks(n_blocks) :
                "children" \in DOMAIN b => IdsOf(b.children) = PagesOf(b.id)

\* a fetch has ended and some node below the page came in several pages
CursorThreadingWitness ==
    /\ n_pc = "fetched"
    /\ \E k \in 1..Len(n_log) :
          IsList(n_log[k]) /\ n_log[k].start_cursor # 0 /\ n_log[k].block_id # RootId

\* the fetched tree when every listing is answered with one page
RECURSIVE SinglePageFetch(_)
SinglePageFetch(id) ==
    [k \in 1..Len(Kids(id)) |->
        LET b == RawBlock(Kids(id)[k])
        IN  IF b.has_children
            THEN ("children" :> SinglePageFetch(b.id)) @@ b
            ELSE b]

\* C5: the markdown returned is the markdown of the same tree served with
\* one page per node, however the source split the listings into pages.
PaginationIndependent ==
    n_pc = "done" =>
        n_result[1].markdown = blocksToMarkdown(SinglePageFetch(RootId), 0)

PaginationIndependentWitness ==
    /\ n_pc = "done"
    /\ n_result[1].markdown # <<>>
    /\ \E j, k \in 1..Len(n_log) :
          /\ j # k
          /\ IsList(n_log[j]) /\ n_log[j].start_cursor # 0
          /\ IsList(n_log[k]) /\ n_log[k].start_cursor # 0

\* C6: a failed provider call is the last call made, fetchNotionPage has
\* failed with its error, and nothing is returned.
FailureIsFatal ==
    \A k \in 1..Len(n_log) : n_log[k].status = "error" =>
        /\ k = Len(n_log)
        /\ n_pc = "failed"
        /\ n_error = <<n_log[k].error>>
        /\ n_result = <<>>
        /\ n_inflight = {}

\* a listing below the page failed after blocks had been fetched
FailureIsFatalWitness ==
    /\ Len(n_log) > 3
    /\ n_log[Len(n_log)].status = "error"
    /\ n_log[Len(n_log)].block_id # RootId
    /\ n_log[Len(n_log)].start_cursor # 0

\* blocks is the complete child list of node id, and so down the tree
RECURSIVE FullyExpanded(_, _)
FullyExpanded(blocks, id) ==
    /\ IdsOf(blocks) = Kids(id)
    /\ \A k \in 1..Len(blocks) :
          blocks[k].has_children =>
              /\ "children" \in DOMAIN blocks[k]
              /\ FullyExpanded(blocks[k].children, blocks[k].id)

\* C7: the tree handed to blocksToMarkdown holds, for every block flagged
\* has_children, the complete child list.
ExpandedBeforeConversion ==
    n_pc \in {"fetched", "done"} => FullyExpanded(n_blocks, RootId)

ExpandedBeforeConversionWitness ==
    /\ n_pc = "fetched"
    /\ \E b \in AllBlocks(n_blocks) :
          /\ "children" \in DOMAIN b /\ Len(b.children) >= 2
          /\ \E c \in 1..Len(b.children) : "children" \in DOMAIN b.children[c]

\* a is a proper ancestor of b (the page is an ancestor of every block)
RECURSIVE Ancestor(_, _)
Ancestor(a, b) ==
    IF b = RootId THEN FALSE
    ELSE n_parent[b] = a \/ Ancestor(a, n_parent[b])

InSubtree(a, b) == b = a \/ Ancestor(a, b)

\* C8: no listing of a node follows a listing of one of its descendants, and
\* every listing in the subtree of a child precedes every listing in the
\* subtree of a later sibling.
DepthFirstPreOrder ==
    \A i, j \in 1..Len(n_log) : (IsList(n_log[i]) /\ IsList(n_log[j]) /\ i < j) =>
        /\ ~Ancestor(n_log[j].block_id, n_log[i].block_id)
        /\ \A a, b \in 1..NumNodes :
              (n_parent[a] = n_parent[b] /\ a < b)
                  => ~(InSubtree(b, n_log[i].block_id) /\ InSubtree(a, n_log[j].block_id))

\* two siblings were both expanded, the earlier one with a nested listing
DepthFirstPreOrderWitness ==
    /\ n_pc = "fetched"
    /\ \E a, b \in 1..NumNodes :
          /\ n_parent[a] = n_parent[b] /\ a < b
          /\ \E i, j, k \in 1..Len(n_log) :
                /\ IsList(n_log[i]) /\ n_log[i].block_id = a
                /\ IsList(n_log[j]) /\ Ancestor(a, n_log[j].block_id)
                /\ IsList(n_log[k]) /\ n_log[k].block_id = b

\* C9: at most one provider request is outstanding, and it is the call
\* issued last.
SingleOutstanding ==
    /\ Cardinality(n_inflight) <= 1
    /\ \A k \in 1..Len(n_log) : n_log[k].status = "pending" => k = Len(n_log)

\* a request is outstanding for the second of two siblings with children
SingleOutstandingWitness ==
    /\ Cardinality(n_inflight) = 1
    /\ Len(n_stack) >= 2
    /\ n_stack[Len(n_stack) - 1].i >= 2
    /\ \E k \in 1..(n_stack[Len(n_stack) - 1].i - 1) :
          n_stack[Len(n_stack) - 1].blocks[k].has_children

\* the non-empty fragments joined by a blank line, defined on its own
RECURSIVE BlankLineJoined(_)
BlankLineJoined(frags) ==
    IF frags = <<>> THEN <<>>
    ELSE IF Head(frags) = <<>> THEN BlankLineJoined(Tail(frags))
    ELSE LET rest == BlankLineJoined(Tail(frags))
         IN  IF rest = <<>> THEN Head(frags) ELSE Head(frags) \o <<"\n", "\n">> \o rest

\* the sibling lists of a fetched tree
SiblingLists ==
    {n_blocks} \cup {b.children : b \in {x \in AllBlocks(n_blocks) : "children" \in DOMAIN x}}

\* C10: blocksToMarkdown of a sibling list is its non-empty fragments, in
\* order, with exactly two newlines between neighbours: an empty fragment
\* adds no separator between, before or after them.
JoinDropsEmptyFragments ==
    n_pc = "done" =>
        /\ \A blocks \in SiblingLists : \A depth \in 0..1 :
              LET out == blocksToMarkdown(blocks, depth)
              IN  /\ out = BlankLineJoined([k \in 1..Len(blocks) |->
                                               blockToMarkdown(blocks[k], depth)])
                  /\ out # <<>> => (Head(out) # "\n" /\ out[Len(out)] # "\n")
        /\ n_result[1].markdown = BlankLineJoined([k \in 1..Len(n_blocks) |->
                                       blockToMarkdown(n_blocks[k], 0)])

FragmentIsEmpty(block) == blockToMarkdown(block, 0) = <<>>

\* a list was converted whose first fragment is empty and which has another
\* empty fragment between two non-empty ones
JoinDropsEmptyFragmentsWitness ==
    /\ n_pc = "done"
    /\ n_result[1].markdown # <<>>
    /\ Len(n_blocks) >= 4
    /\ FragmentIsEmpty(n_blocks[1])
    /\ ~FragmentIsEmpty(n_blocks[2])
    /\ FragmentIsEmpty(n_blocks[3])
    /\ ~FragmentIsEmpty(n_blocks[4])

\* the plain text of a run: its plain_text fields, concatenated
PlainTextOf(run) == Flatten([k \in 1..Len(run) |-> run[k].plain_text])

\* C12: a code block is the opening fence with the language tag, the plain
\* text of its spans with no marker added for any annotation or link, and
\* the closing fence.
CodeBlockIsPlainText ==
    (bk_pc = "done" /\ bk_block.type = "code") =>
        bk_out = BQ \o BQ \o BQ \o Get(bk_block.data, "language", <<>>) \o NL
                    \o PlainTextOf(Get(bk_block.data, "rich_text", <<>>)) \o NL
                    \o BQ \o BQ \o BQ

\* String.prototype.split('\n')
RECURSIVE SplitLines(_)
SplitLines(s) ==
    IF \A k \in 1..Len(s) : s[k] # "\n" THEN <<s>>
    ELSE LET k == CHOOSE x \in 1..Len(s) :
                      s[x] = "\n" /\ \A y \in 1..(x - 1) : s[y] # "\n"
         IN  <<SubSeq(s, 1, k - 1)>> \o SplitLines(SubSeq(s, k + 1, Len(s)))

\* the cells of a row of a table
CellsOf(row) == IF row.type = "table_row" THEN Get(row.data, "cells", <<>>) ELSE <<>>

\* a row as a pipe-delimited line
PipeLine(texts) ==
    <<"|", " ">> \o Join(texts, <<" ", "|", " ">>) \o <<" ", "|">>

RowLine(row) ==
    PipeLine([k \in 1..Len(CellsOf(row)) |-> richTextToMarkdown(CellsOf(row)[k])])

\* C13: a table without fetched children or without rows is the empty
\* string; otherwise its lines are the first row, one separator line with a
\* --- per cell of the first row, then the other rows in order.  Two rows of
\* two cells give header, | --- | --- |, data.
TableIsHeaderSeparatorRows ==
    (bk_pc = "done" /\ bk_block.type = "table") =>
        IF "children" \notin DOMAIN bk_block \/ Get(bk_block, "children", <<>>) = <<>>
        THEN bk_out = <<>>
        ELSE LET rows == bk_block.children
                 lines == SplitLines(bk_out)
             IN  /\ Len(lines) = Len(rows) + 1
                 /\ lines[1] = RowLine(rows[1])
                 /\ lines[2] = PipeLine([k \in 1..Len(CellsOf(rows[1])) |-> <<"-", "-", "-">>])
                 /\ \A i \in 2..Len(rows) : lines[i + 1] = RowLine(rows[i])
                 /\ (Len(rows) = 2 /\ Len(CellsOf(rows[1])) = 2 /\ Len(CellsOf(rows[2])) = 2) =>
                       bk_out = RowLine(rows[1]) \o NL
                                   \o <<"|", " ", "-", "-", "-", " ", "|", " ",
                                        "-", "-", "-", " ", "|">>
                                   \o NL \o RowLine(rows[2])

\* a table of a two-cell header and two more rows, one of another width, has
\* been converted
TableIsHeaderSeparatorRowsWitness ==
    /\ bk_pc = "done" /\ bk_block.type = "table"
    /\ "children" \in DOMAIN bk_block
    /\ Len(bk_block.children) = 3
    /\ Len(CellsOf(bk_block.children[1])) = 2
    /\ Len(CellsOf(bk_block.children[2])) = 2
    /\ Len(CellsOf(bk_block.children[3])) = 1
    /\ bk_out # <<>>

\* the url of an image payload, <<>> when it has none
ImageUrlOf(data) ==
    IF Get(data, "type", "") = "external"
    THEN Get(Get(data, "external", <<>>), "url", <<>>)
    ELSE Get(Get(data, "file", <<>>), "url", <<>>)

\* C14: an image without url is the empty string; with a url it is
\* ![caption](url), the alt text being the composed caption (empty when
\* there is none), followed by a *caption* line exactly when the caption is
\* not empty.
ImageAltIsCaption ==
    (bk_pc = "done" /\ bk_block.type = "image") =>
        LET url == ImageUrlOf(bk_block.data)
            caption == richTextToMarkdown(Get(bk_block.data, "caption", <<>>))
        IN  IF url = <<>> THEN bk_out = <<>>
            ELSE bk_out = <<"!", "[">> \o caption \o <<"]", "(">> \o url \o <<")">>
                             \o (IF caption # <<>>
                                 THEN NL \o <<"*">> \o caption \o <<"*">> ELSE <<>>)

\* the kinds the switch of blockToMarkdown names
KnownKinds ==
    {"paragraph", "heading_1", "heading_2", "heading_3", "bulleted_list_item",
     "numbered_list_item", "to_do", "toggle", "code", "quote", "callout",
     "divider", "image", "bookmark", "link_preview", "table", "table_row",
     "column_list", "column"}

\* C15: blockToMarkdown returns a string for every kind and every payload,
\* a missing one included; a kind the switch does not name gives the
\* composed text of its payload when it has one and the empty string
\* otherwise.
ConversionIsTotal ==
    bk_pc = "done" =>
        /\ DOMAIN bk_out = 1..Len(bk_out)
        /\ \A k \in 1..Len(bk_out) : bk_out[k] \in STRING
        /\ bk_block.type \notin KnownKinds =>
              bk_out = IF "rich_text" \in DOMAIN bk_block.data
                       THEN richTextToMarkdown(bk_block.data.rich_text)
                       ELSE <<>>

\* a block of a kind the switch does not name, with text, was converted
ConversionIsTotalWitness ==
    /\ bk_pc = "done"
    /\ bk_block.type \notin KnownKinds
    /\ "rich_text" \in DOMAIN bk_block.data
    /\ bk_out # <<>>

IsListItem(i) == TypeOf(i) \in {"bulleted_list_item", "numbered_list_item"}

\* the number of bulleted or numbered items among the ancestors of block i
RECURSIVE ListAncestors(_)
ListAncestors(i) ==
    IF i = RootId \/ n_parent[i] = RootId THEN 0
    ELSE (IF IsListItem(n_parent[i]) THEN 1 ELSE 0) + ListAncestors(n_parent[i])

\* block i reaches the markdown: every ancestor is of a kind that converts
\* its children
RECURSIVE Rendered(_)
Rendered(i) ==
    \/ n_parent[i] = RootId
    \/ /\ TypeOf(n_parent[i]) \in ContainerKinds
       /\ Rendered(n_parent[i])

\* the line a list item starts with when it is converted at depth d
ItemLine(i, d) ==
    [k \in 1..(2 * d) |-> " "]
        \o (IF TypeOf(i) = "numbered_list_item" THEN <<"1", ".", " ">> ELSE <<"-", " ">>)
        \o <<ToString(i)>>

FetchedBlock(i) == CHOOSE b \in AllBlocks(n_blocks) : b.id = i

\* C11: every list item that reaches the markdown is on exactly one line,
\* which is two spaces per list-item ancestor (toggles, column lists and
\* columns between them not counted), the marker (1. for every numbered
\* item) and its text; its converted children, one level deeper, are the
\* lines that follow after a single newline.
DepthCountsListAncestors ==
    n_pc = "done" =>
        LET lines == SplitLines(n_result[1].markdown)
        IN  \A i \in 1..NumNodes : (IsListItem(i) /\ Rendered(i)) =>
                LET d == ListAncestors(i)
                    at == {k \in 1..Len(lines) : lines[k] = ItemLine(i, d)}
                    k == CHOOSE x \in at : TRUE
                    children == blocksToMarkdown(Get(FetchedBlock(i), "children", <<>>), d + 1)
                    below == SplitLines(children)
                IN  /\ Cardinality(at) = 1
                    /\ \A j \in 1..Len(lines) :
                          trimStart(lines[j]) = ItemLine(i, 0) => j \in at
                    /\ children # <<>> =>
                          /\ k + Len(below) <= Len(lines)
                          /\ SubSeq(lines, k + 1, k + Len(below)) = below

\* a list item under a list item, a toggle and a list item was converted
DepthCountsListAncestorsWitness ==
    /\ n_pc = "done"
    /\ \E i \in 1..NumNodes :
          /\ IsListItem(i) /\ Rendered(i)
          /\ ListAncestors(i) = 2
          /\ TypeOf(n_parent[n_parent[i]]) = "toggle"

\* a span formatted by its annotations only
AnnotatedOnly(span) == richTextToMarkdown(<<[span EXCEPT !.href = <<>>]>>)

\* C16: every span with a link is [ + the span formatted by its annotations
\* only + ]( + link + ), so the link is outside every marker; a bold a
\* followed by an italic b linked to http://x gives **a**[*b*](http://x).
LinkWrapsAnnotations ==
    rt_pc = "done" =>
        /\ rt_out = Flatten([k \in 1..Len(rt_run) |->
                        IF rt_run[k].href # <<>>
                        THEN <<"[">> \o AnnotatedOnly(rt_run[k]) \o <<"]", "(">>
                                 \o rt_run[k].href \o <<")">>
                        ELSE AnnotatedOnly(rt_run[k])])
        /\ rt_run = ExampleRun =>
              rt_out = <<"*", "*", "a", "*", "*", "[", "*", "b", "*", "]", "(",
                         "h", "t", "t", "p", ":", "/", "/", "x", ")">>

\* the run of the example was composed
LinkWrapsAnnotationsWitness == rt_pc = "done" /\ rt_run = ExampleRun

IsPlain(span) ==
    /\ span.href = <<>>
    /\ ~span.annotations.bold /\ ~span.annotations.italic
    /\ ~span.annotations.strikethrough /\ ~span.annotations.code

\* the text fields of a run, one after the other
RECURSIVE TextsOf(_)
TextsOf(run) == IF run = <<>> THEN <<>> ELSE Head(run).plain_text \o TextsOf(Tail(run))

\* C17: the composition of a run is the composition of any prefix followed
\* by the composition of the rest, so every span is formatted on its own
\* and in place, neighbours with equal annotations included; the empty run
\* gives the empty string and a run without annotations and links the
\* concatenation of its texts.
ComposeIsConcatenation ==
    rt_pc = "done" =>
        /\ \A n \in 0..Len(rt_run) :
              rt_out = richTextToMarkdown(SubSeq(rt_run, 1, n))
                          \o richTextToMarkdown(SubSeq(rt_run, n + 1, Len(rt_run)))
        /\ rt_run = <<>> => rt_out = <<>>
        /\ (\A k \in 1..Len(rt_run) : IsPlain(rt_run[k])) => rt_out = TextsOf(rt_run)

\* two bold neighbours with equal annotations and text were composed
ComposeIsConcatenationWitness ==
    /\ rt_pc = "done"
    /\ Len(rt_run) = 2
    /\ rt_run[1] = rt_run[2]
    /\ rt_run[1].annotations.bold /\ rt_run[1].plain_text # <<>>
    /\ rt_out = <<"*", "*", "t", "*", "*", "*", "*", "t", "*", "*">>

\* the headings of level 2 and 3 of the document, in document order
TocHeadings == SelectSeq(md_content, LAMBDA item : item.level \in {2, 3})

\* C18: the toc has one entry per heading of level 2 or 3, in document
\* order, with its level and inline text, and none for the levels 1 and 4
\* to 6; "# Title / ## One / content / ### Two" gives
\* [{one, One, 2}, {two, Two, 3}].
TocIsLevelTwoAndThree ==
    md_pc = "done" =>
        /\ Len(md_toc) = Len(TocHeadings)
        /\ \A k \in 1..Len(md_toc) :
              /\ md_toc[k].level = TocHeadings[k].level
              /\ md_toc[k].text = SourceOf(TocHeadings[k].inline)
        /\ md_content = ExampleDocument =>
              md_toc = <<[id |-> <<"o", "n", "e">>, text |-> <<"O", "n", "e">>, level |-> 2],
                         [id |-> <<"t", "w", "o">>, text |-> <<"T", "w", "o">>, level |-> 3]>>

\* the document of the example was parsed
TocIsLevelTwoAndThreeWitness ==
    /\ md_pc = "done" /\ md_content = ExampleDocument /\ Len(md_toc) = 2

\* the positions of the level-1 headings of the document
LevelOnes == {k \in 1..Len(md_content) : md_content[k].level = 1}

\* C19: the title is the inline content, as written, of the first level-1
\* heading, whatever precedes and follows it, and is absent exactly when
\* the document has no level-1 heading.
TitleIsFirstLevelOne ==
    md_pc = "done" =>
        IF LevelOnes = {} THEN md_title = <<>>
        ELSE LET first == CHOOSE k \in LevelOnes : \A m \in LevelOnes : k <= m
             IN  md_title = <<SourceOf(md_content[first].inline)>>

\* a level-2 heading, then two level-1 headings of different content, the
\* first of which is not its own slug
TitleIsFirstLevelOneWitness ==
    /\ md_pc = "done"
    /\ Len(md_content) = 3
    /\ md_content[1].level = 2
    /\ md_content[2].level = 1 /\ md_content[3].level = 1
    /\ md_content[2].inline # md_content[3].inline
    /\ md_title # <<>>
    /\ slugify(md_title[1]) # md_title[1]

\* C20: the slug of a slug is that slug.
SlugifyIsIdempotent == sl_pc = "done" => sl_again = sl_slug

\* a string with a leading blank, a capital, a tab and punctuation was
\* slugified twice
SlugifyIsIdempotentWitness ==
    /\ sl_pc = "done"
    /\ sl_s # <<>> /\ Head(sl_s) = " "
    /\ {"A", "\t", "!"} \subseteq Range(sl_s)
    /\ sl_slug # <<>> /\ sl_slug # sl_s

\* the lines of the markup that hold a list item
TocItemLines ==
    SelectSeq(SplitLines(th_out),
              LAMBDA line : \E k \in 1..Len(line) : line[k] = "<li class=\"toc-item ")

\* one character of entry text as it must show in markup
RECURSIVE Escaped(_)
Escaped(text) ==
    IF text = <<>> THEN <<>>
    ELSE (IF Head(text) = "&" THEN <<"&", "a", "m", "p", ";">>
          ELSE IF Head(text) = "<" THEN <<"&", "l", "t", ";">>
          ELSE IF Head(text) = ">" THEN <<"&", "g", "t", ";">>
          ELSE IF Head(text) = "\"" THEN <<"&", "q", "u", "o", "t", ";">>
          ELSE IF Head(text) = "'" THEN <<"&", "#", "3", "9", ";">>
          ELSE <<Head(text)>>) \o Escaped(Tail(text))

\* C21: generateTocHtml of the empty toc is the empty string; otherwise the
\* markup holds one list item per entry, in entry order, that links to # +
\* the entry's id, carries the indent class exactly when the level is 3,
\* and shows the text with & < > " and the apostrophe escaped.
TocMarkupListsEntries ==
    th_pc = "done" =>
        /\ th_toc = <<>> => th_out = <<>>
        /\ th_toc # <<>> =>
              /\ Len(TocItemLines) = Len(th_toc)
              /\ Cardinality({k \in 1..Len(th_out) : th_out[k] = "<ul class=\"toc-list\">"}) = 1
              /\ \A k \in 1..Len(th_toc) :
                    LET line == TocItemLines[k]
                        from == CHOOSE x \in 1..Len(line) : line[x] = "<li class=\"toc-item "
                        item == SubSeq(line, from, Len(line))
                    IN  /\ ("toc-indent" \in Range(item)) <=> (th_toc[k].level = 3)
                        /\ SelectSeq(item, LAMBDA c : c # "toc-indent")
                              = <<"<li class=\"toc-item ", "\"><a href=\"#">>
                                   \o th_toc[k].id \o <<"\">">>
                                   \o Escaped(th_toc[k].text) \o <<"</a></li>">>

\* a toc of a level-3 and a level-2 entry, with every escaped character,
\* was rendered
TocMarkupListsEntriesWitness ==
    /\ th_pc = "done"
    /\ Len(th_toc) = 2
    /\ th_toc[1].level = 3 /\ th_toc[2].level = 2
    /\ th_toc[1].text = <<">", "\"", "'">> /\ th_toc[2].text = <<"&", "<">>
    /\ th_out # <<>>

\* s is an identifier: 32 hex digits, or the canonical dashed form 8-4-4-4-12
IsIdentifier(s) ==
    \/ Len(s) = 32 /\ \A k \in 1..32 : IsHex(s[k])
    \/ /\ Len(s) = 36
       /\ \A k \in 1..36 : IF k \in {9, 14, 19, 24} THEN s[k] = "-" ELSE IsHex(s[k])

\* the input is an identifier, or ends with one, or its part before a
\* question mark does
EndsWithIdentifier(s) ==
    \E e \in {Len(s)} \cup {k - 1 : k \in {x \in 1..Len(s) : s[x] = "?"}} :
        \E n \in {32, 36} : e >= n /\ IsIdentifier(SubSeq(s, e - n + 1, e))

\* C22: extractPageId returns an identifier for a bare 32-digit hex id, for
\* the canonical dashed form, and for a URL whose end (or whose end before
\* a question mark) is such an id, and null for every other string.
PageIdOnlyForIdentifiers ==
    id_pc = "done" =>
        IF EndsWithIdentifier(id_in)
        THEN id_out # <<>> /\ IsIdentifier(id_out[1]) /\ Len(id_out[1]) = 32
        ELSE id_out = <<>>

\* C26: whatever the input, extractPageId returns null or a string of
\* exactly 32 hex digits without a hyphen.
PageIdIsNullOrThirtyTwoHex ==
    id_pc = "done" =>
        \/ id_out = <<>>
        \/ /\ Len(id_out[1]) = 32
           /\ \A k \in 1..Len(id_out[1]) : IsHex(id_out[1][k])

\* what the document's elements are when hljs never throws
QuietHtml == Render(MdParse(md_content), {})

\* C23: parseMarkdown never fails on highlighting: it returns one element
\* per block; a fenced block whose highlighting threw, or whose tag is absent
\* or not a known language, holds its escaped text, a highlighted one the
\* highlighter's markup, and every other block is what it is when nothing
\* throws.
HighlightFailureIsLocal ==
    /\ md_pc # "failed"
    /\ md_pc = "done" =>
          /\ Len(md_html) = Len(md_content)
          /\ \A k \in 1..Len(md_content) :
                LET item == md_content[k]
                IN  IF IsFence(item)
                    THEN /\ md_html[k].tag = <<"pre">>
                         /\ md_html[k].text =
                              IF item.lang \in Languages /\ k \notin md_threw
                              THEN Highlighted(mdEscapeHtml(item.code \o NL))
                              ELSE mdEscapeHtml(item.code \o NL)
                    ELSE md_html[k] = QuietHtml[k]

\* C23 witness: a returned document of three blocks in which the
\* highlighting of one fenced block threw, another was highlighted, and a
\* third block is a heading.
HighlightFailureIsLocalWitness ==
    /\ md_pc = "done" /\ Len(md_content) = 3
    /\ \E k \in md_threw : md_html[k].text = mdEscapeHtml(md_content[k].code \o NL)
    /\ \E k \in 1..3 :
          /\ IsFence(md_content[k]) /\ k \notin md_threw
          /\ md_html[k].text = Highlighted(mdEscapeHtml(md_content[k].code \o NL))
    /\ \E k \in 1..3 : ~IsFence(md_content[k]) /\ md_html[k].tag = <<"h", "2">>

\* the request names no page: the body has no url, or the url holds no
\* identifier
NamesNoPage == h_body = "nourl" \/ ~EndsWithIdentifier(UrlText(n_url))

\* C24: a request gets exactly one response; it is 400, with no call to
\* the source, when the integration is not configured, the url is missing
\* or holds no identifier; 400 when the source fails with 'Could not find'
\* or 'unauthorized'; 500 for any other failure; and 200 only when the page
\* and the whole tree were fetched and converted.
OneResponsePerRequest ==
    /\ Len(h_sent) <= 1
    /\ (h_pc = "responded") <=> (Len(h_sent) = 1)
    /\ (h_pc # "responded") => ENABLED NextRoute
    /\ (~n_key \/ (h_body # "unreadable" /\ NamesNoPage)) =>
          /\ n_log = <<>>
          /\ h_pc = "responded" => h_sent = <<400>>
    /\ h_pc = "responded" =>
          /\ (n_key /\ h_body = "unreadable") => h_sent = <<500>>
          /\ n_pc = "failed" =>
                h_sent = IF n_error[1] \in {"Could not find block", "API token is unauthorized"}
                         THEN <<400>> ELSE <<500>>
          /\ h_sent = <<200>> =>
                /\ n_pc = "done" /\ n_log[1].op = "retrieve"
                /\ FullyExpanded(n_blocks, RootId)
                /\ n_result[1].markdown = blocksToMarkdown(n_blocks, 0)

\* C27: the browser is launched at most once between two closeBrowser
\* calls, at most one launched browser exists, and every launched browser
\* that has not been closed is the one the module variable refers to.
BrowserIsSingleton ==
    /\ pdf_since <= 1
    /\ Cardinality(pdf_live) <= 1
    /\ \A b \in pdf_live : pdf_browser = b

\* the blocks the source flags has_children
Flagged == {i \in 1..NumNodes : RawBlock(i).has_children}

\* no listing was requested twice, only the page and flagged blocks were
\* listed (the log keeps every request made), and a finished fetch has
\* listed each of them to its last page
ListedOnce ==
    /\ \A j, k \in 1..Len(n_log) :
          (j # k /\ n_log[j].op = n_log[k].op /\ n_log[j].block_id = n_log[k].block_id)
              => n_log[j].start_cursor # n_log[k].start_cursor
    /\ \A k \in 1..Len(n_log) :
          IsList(n_log[k]) => n_log[k].block_id \in {RootId} \cup Flagged
    /\ n_pc = "done" =>
          \A i \in {RootId} \cup Flagged :
              /\ \E k \in 1..Len(n_log) : IsList(n_log[k]) /\ n_log[k].block_id = i
              /\ PagesOf(i) = Kids(i)

\* C28: when the source answers every request, fetchNotionPage terminates,
\* and the listing of the page and of each flagged block is requested
\* exactly once per page and no other block is listed.
TerminatesListingOnce ==
    <>(/\ n_pc \in {"done", "failed"}
       /\ n_pc = "failed" => n_log = <<>>
       /\ ListedOnce)

\* C28 witness: a fetch has returned after listing a block in two pages,
\* a flagged block without children and a block below another block.
TerminatesListingOnceWitness ==
    /\ n_pc = "done"
    /\ n_hollow # 0
    /\ \E k \in 1..Len(n_log) :
          IsList(n_log[k]) /\ n_log[k].start_cursor # 0 /\ n_log[k].block_id # RootId
    /\ \E i \in Flagged : n_parent[i] # RootId

\* C29: a response with has_more = true is followed by another request for
\* the same node, and a fetch that has not failed holds, for every node it
\* expanded, the complete child list of the source.
RetrievalEndsOnNoMore ==
    /\ \A k \in 1..Len(n_log) :
          (IsList(n_log[k]) /\ n_log[k].status = "ok" /\ n_log[k].has_more) =>
              /\ k < Len(n_log)
              /\ IsList(n_log[k + 1])
              /\ n_log[k + 1].block_id = n_log[k].block_id
    /\ n_pc \in {"fetched", "done"} => FullyExpanded(n_blocks, RootId)

\* block i carries text
HasText(i) == "rich_text" \in DOMAIN DataOf(i)

\* where the text of block i stands in the markdown returned (the 1 of a
\* list marker is followed by a full stop, a text is not)
TextAt(i) ==
    LET markdown == n_result[1].markdown
    IN  {k \in 1..Len(markdown) :
            /\ markdown[k] = ToString(i)
            /\ ~(k < Len(markdown) /\ markdown[k + 1] = ".")}

\* C30: the text of every block fetched below another block is in the
\* markdown returned, after the text of the block it is a child of.
ChildrenFollowParent ==
    n_pc = "done" =>
        \A i \in 1..NumNodes : (n_parent[i] # RootId /\ HasText(i)) =>
            /\ TextAt(i) # {}
            /\ HasText(n_parent[i]) =>
                  \E j \in TextAt(n_parent[i]) : \A k \in TextAt(i) : j < k

\* what fetchNotionPage returns for the page when it is the only call and
\* every listing is answered with one page
AloneResult ==
    [title |-> extractPageTitle(PageObject),
     markdown |-> blocksToMarkdown(SinglePageFetch(RootId), 0),
     icon |-> extractIcon(PageObject),
     cover |-> extractCover(PageObject)]

\* C25: whatever the interleaving of two fetchNotionPage calls and the
\* parseMarkdown calls between their steps, a call that returns returns
\* what it returns alone, a call fails only with the error of its own last
\* request, and two parseMarkdown calls on the same text return the same.
ConversionsDoNotInterfere ==
    /\ \A c \in {CallState, o_call} :
          /\ c.pc = "done" => c.result = <<AloneResult>>
          /\ c.pc = "failed" =>
                /\ c.log # <<>> /\ c.log[Len(c.log)].status = "error"
                /\ c.error = <<c.log[Len(c.log)].error>>
          /\ \A k \in 1..Len(c.log) : c.log[k].status = "pending" => k = Len(c.log)
    /\ \A a, b \in md_seen : (a.content = b.content /\ a.threw = b.threw) => a = b

\* C25 witness: one call has returned the page while the other, started
\* before, is still waiting for a listing, the event loop went back and
\* forth between them, and the same text was parsed twice in between.
ConversionsDoNotInterfereWitness ==
    /\ n_pc = "done" /\ n_result[1].markdown # <<>>
    /\ o_call.pc = "await_list" /\ Len(o_call.log) >= 2
    /\ o_switches >= 2
    /\ md_calls = 2 /\ md_pc = "done" /\ Cardinality(md_seen) = 1

====
